---- MODULE Spec2Model ----
(***************************************************************************)
(* Model of the Fundobaba chat application.                                 *)
(*                                                                         *)
(*  - Spec    : the chat-session routes of backend/routes/chat.js over the *)
(*              Chat collection of backend/models/Chat.js, with requests   *)
(*              whose database steps interleave.                           *)
(*  - SpecNLP : the pure scoring functions of backend/services/            *)
(*              nlpService.js and the pattern fallback of chat.js, applied *)
(*              to inputs drawn from bounded sets.                         *)
(*  - SpecService : calls on the NLPService instance of chat.js, with the  *)
(*              state its TfIdf keeps between calls.                       *)
(*  - SpecLoan : the loan application routes over the LoanApplication      *)
(*              collection, with requests whose database steps interleave. *)
(*  - SpecUI  : the ChatInterface component of the front end, with the     *)
(*              requests it awaits.                                        *)
(*  - SpecOwner : the routes of Spec and of SpecLoan together.             *)
(*                                                                         *)
(* Strings are TLA+ strings (sequences of characters), so substring tests, *)
(* splitting and lower-casing are computed character by character.         *)
(* Optional request fields are modelled as sequences: <<>> is `undefined`, *)
(* <<v>> is the value v.                                                   *)
(***************************************************************************)
EXTENDS Integers, Sequences, FiniteSets, TLC

VARIABLES db, reqs, clock, nextId, lastOp,
          call, pc, result,
          service, returned,
          apps, loanReqs, loanOp,
          ui, pending, server, sends

sessionVars == <<db, reqs, clock, nextId, lastOp>>
nlpVars == <<call, pc, result>>
serviceVars == <<service, returned>>
loanVars == <<apps, loanReqs, loanOp>>
uiVars == <<ui, pending, server, sends>>
vars == <<db, reqs, clock, nextId, lastOp, call, pc, result,
          service, returned, apps, loanReqs, loanOp,
          ui, pending, server, sends>>

(***************************************************************************)
(* Bounds of the session model.                                            *)
(***************************************************************************)
MaxDocs == 2        \* documents ever created (ObjectIds 1..MaxDocs)
MaxClock == 2       \* ticks of Date.now(): one per stored send-message

Users == {"alice", "bob"}
SessionIds == {"s1", "s2"}
Reqs == {"r1", "r2"}

None == <<>>
Some(v) == <<v>>

\* JavaScript truthiness of an optional string: undefined and '' are falsy.
Truthy(o) == o # None /\ o[1] # ""

(***************************************************************************)
(* Character-level string helpers (String.prototype methods).              *)
(***************************************************************************)
IsSpace(c) == c = " "

RECURSIVE TrimLeft(_)
TrimLeft(s) ==
  IF Len(s) > 0 /\ IsSpace(SubSeq(s, 1, 1)) THEN TrimLeft(SubSeq(s, 2, Len(s))) ELSE s

RECURSIVE TrimRight(_)
TrimRight(s) ==
  IF Len(s) > 0 /\ IsSpace(SubSeq(s, Len(s), Len(s)))
  THEN TrimRight(SubSeq(s, 1, Len(s) - 1)) ELSE s

\* String.prototype.trim, applied by the schema option trim: true
Trim(s) == TrimRight(TrimLeft(s))

(***************************************************************************)
(* Chat schema (backend/models/Chat.js).                                   *)
(***************************************************************************)
SenderEnum == {"user", "assistant"}
MessageTypeEnum == {"text", "loan-application", "document", "system"}
StatusEnum == {"active", "completed", "archived"}
DefaultTitle == "New Chat Session"

\* the greeting stored as first message by POST /sessions
Greeting == [sender |-> "assistant", content |-> "Hello!", messageType |-> "text"]

\* request inputs: req.body of POST /sessions, of POST /sessions/:id/messages
\* and of PUT /sessions/:id
Titles == {None, Some("")}
SendBodies ==
  { [content |-> None, messageType |-> None],
    [content |-> Some("loan "), messageType |-> None],
    [content |-> Some(" "), messageType |-> Some("voice")] }
UpdateBodies ==
  { [title |-> Some("Loans"), status |-> Some("completed"), tags |-> Some(<<"vip">>)],
    [title |-> Some(""), status |-> Some("bogus"), tags |-> None] }
\* the string generateFundobabaResponse returns (see SpecNLP for its value)
Responses == {"canned"}

\* (the variant validates the sender only)
SenderValidated(m) == m.sender \in SenderEnum

\* messageSchema: sender and content required, content trimmed, messageType in enum
ValidMessage(m) ==
  /\ m.sender \in SenderEnum
  /\ m.content # None /\ Trim(m.content[1]) # ""
  /\ m.messageType \in MessageTypeEnum

\* the subdocument as it is cast and stored (content trimmed)
CastMessage(m) ==
  [sender |-> m.sender, content |-> Trim(m.content[1]), messageType |-> m.messageType]

Idle == [pc |-> "idle"]

InFlight == {r \in Reqs : reqs[r].pc # "idle"}

\* A request slot is free.  Two requests are explored in flight together only
\* while the first document is the only one created so far; once a second
\* document has been created, requests are handled one after the other.
CanStart(r) ==
  /\ reqs[r].pc = "idle"
  /\ InFlight = {} \/ nextId <= 2

\* Chat.findOne({ sessionId, userId }) (the variant leaves the owner out)
FindBySessionId(u, sid) == {d \in db : d.sessionId = sid}

Find(u, sid) == {d \in db : d.sessionId = sid /\ d.userId = u}

\* the request last answered (or advanced): who asked, and the HTTP status
\* (0 while the handler is still awaiting the database)
Answer(u, code) == [user |-> u, code |-> code]

\* the unique index on sessionId (chatSchema.sessionId: unique: true)
NoUniqueIndex(sid) == FALSE
DuplicateKey(sid) == \E d \in db : d.sessionId = sid

\* the variables of SpecService and of SpecLoan outside those specifications
NoServiceCalls == service = None /\ returned = None
NoLoanRequests == apps = {} /\ loanReqs = None /\ loanOp = None
NoChatInterface == ui = None /\ pending = {} /\ server = None /\ sends = 0

Init ==
  /\ db = {}
  /\ reqs = [r \in Reqs |-> Idle]
  /\ clock = 0
  /\ nextId = 1
  /\ lastOp = Answer("none", 0)
  /\ call = [fn |-> "none"]
  /\ pc = "off"
  /\ result = None
  /\ NoServiceCalls
  /\ NoLoanRequests
  /\ NoChatInterface

\* POST /sessions : uuidv4() and Chat.create; the unique index on sessionId
\* rejects an insert whose sessionId is already stored.
CreateSession(u, title, sid) ==
  /\ nextId <= MaxDocs
  /\ nextId < 2 \/ Cardinality(InFlight) <= 1
  /\ IF DuplicateKey(sid)
     THEN /\ lastOp' = Answer(u, 500)
          /\ UNCHANGED <<db, nextId>>
     ELSE /\ db' = db \cup {[_id |-> nextId, userId |-> u, sessionId |-> sid,
                             title |-> IF Truthy(title) THEN title[1] ELSE DefaultTitle,
                             messages |-> <<Greeting>>, status |-> "active",
                             tags |-> <<>>, lastActivity |-> clock]}
          /\ nextId' = nextId + 1
          /\ lastOp' = Answer(u, 201)
  /\ UNCHANGED <<reqs, clock, nlpVars, serviceVars, loanVars, uiVars>>

\* GET /sessions/:sessionId
GetSession(u, sid) ==
  /\ lastOp' = Answer(u, IF Find(u, sid) = {} THEN 404 ELSE 200)
  /\ UNCHANGED <<db, reqs, clock, nextId, nlpVars, serviceVars, loanVars, uiVars>>

\* The two subdocuments pushed onto chat.messages by the send-message handler.
PushedUserOnly(content, messageType, response) ==
  << [sender |-> "user", content |-> content, messageType |-> messageType] >>

PushedMessages(content, messageType, response) ==
  << [sender |-> "user", content |-> content, messageType |-> messageType],
     [sender |-> "assistant", content |-> Some(response), messageType |-> "text"] >>

\* chat.save() of a document whose messages array was only pushed to: the
\* pushed subdocuments are sent as a $push and appended to the stored array.
SaveOverwrite(stored, loaded, pushed) ==
  loaded \o [i \in 1..Len(pushed) |-> CastMessage(pushed[i])]

SaveMessages(stored, loaded, pushed) ==
  stored \o [i \in 1..Len(pushed) |-> CastMessage(pushed[i])]

\* POST /sessions/:sessionId/messages up to the call of chat.save():
\* await Chat.findOne, push the user message, await generateFundobabaResponse
\* (userMessage.toLowerCase() throws when content is undefined), push the
\* assistant message.  The pushes change the in-memory document only.
SendFind(r, u, sid, body) ==
  /\ CanStart(r)
  /\ IF Find(u, sid) = {}
     THEN /\ lastOp' = Answer(u, 404)
          /\ UNCHANGED reqs
     ELSE IF body.content = None
     THEN /\ lastOp' = Answer(u, 500)
          /\ UNCHANGED reqs
     ELSE \E d \in Find(u, sid), response \in Responses :
          /\ reqs' = [reqs EXCEPT ![r] =
                        [pc |-> "sendPushed", user |-> u, sid |-> sid,
                         doc |-> [_id |-> d._id, messages |-> d.messages],
                         pushed |-> PushedMessages(body.content,
                                       IF body.messageType = None THEN "text"
                                       ELSE body.messageType[1], response)]]
          /\ lastOp' = Answer(u, 0)
  /\ UNCHANGED <<db, clock, nextId, nlpVars, serviceVars, loanVars, uiVars>>

\* await chat.save(): validation, pre('save') hook (messages is modified, so
\* lastActivity = new Date()), update of the stored document by _id
SendSave(r) ==
  /\ reqs[r].pc = "sendPushed"
  /\ LET q == reqs[r]
         stored == {d \in db : d._id = q.doc._id}
     IN IF (\E i \in 1..Len(q.pushed) : ~ValidMessage(q.pushed[i])) \/ stored = {}
        THEN /\ lastOp' = Answer(q.user, 500)
             /\ UNCHANGED <<db, clock>>
        ELSE \E d \in stored :
             /\ clock < MaxClock
             /\ db' = (db \ {d}) \cup
                        {[d EXCEPT !.messages = SaveMessages(d.messages, q.doc.messages, q.pushed),
                                   !.lastActivity = clock + 1]}
             /\ clock' = clock + 1
             /\ lastOp' = Answer(q.user, 200)
  /\ reqs' = [reqs EXCEPT ![r] = Idle]
  /\ UNCHANGED <<nextId, nlpVars, serviceVars, loanVars, uiVars>>

\* step 3, the database rejecting the write: the catch block answers 500
SendSaveRejected(r) ==
  /\ reqs[r].pc = "sendPushed"
  /\ lastOp' = Answer(reqs[r].user, 500)
  /\ reqs' = [reqs EXCEPT ![r] = Idle]
  /\ UNCHANGED <<db, clock, nextId, nlpVars, serviceVars, loanVars, uiVars>>

\* PUT /sessions/:sessionId, step 1: await Chat.findOne
UpdateFind(r, u, sid, body) ==
  /\ CanStart(r)
  /\ IF Find(u, sid) = {}
     THEN /\ lastOp' = Answer(u, 404)
          /\ UNCHANGED reqs
     ELSE \E d \in Find(u, sid) :
          /\ reqs' = [reqs EXCEPT ![r] =
                        [pc |-> "updateFound", user |-> u, sid |-> sid,
                         doc |-> [_id |-> d._id],
                         title |-> body.title, status |-> body.status,
                         tags |-> body.tags]]
          /\ lastOp' = Answer(u, 0)
  /\ UNCHANGED <<db, clock, nextId, nlpVars, serviceVars, loanVars, uiVars>>

\* step 2: assign the truthy fields and await chat.save(); messages is not
\* modified, so the pre('save') hook leaves lastActivity alone.
UpdateSave(r) ==
  /\ reqs[r].pc = "updateFound"
  /\ LET q == reqs[r]
         stored == {d \in db : d._id = q.doc._id}
     IN IF (Truthy(q.status) /\ q.status[1] \notin StatusEnum) \/ stored = {}
        THEN /\ lastOp' = Answer(q.user, 500)
             /\ UNCHANGED db
        ELSE \E d \in stored :
             /\ db' = (db \ {d}) \cup
                        {[d EXCEPT !.title = IF Truthy(q.title) THEN q.title[1] ELSE @,
                                   !.status = IF Truthy(q.status) THEN q.status[1] ELSE @,
                                   !.tags = IF q.tags # None THEN q.tags[1] ELSE @]}
             /\ lastOp' = Answer(q.user, 200)
  /\ reqs' = [reqs EXCEPT ![r] = Idle]
  /\ UNCHANGED <<clock, nextId, nlpVars, serviceVars, loanVars, uiVars>>

\* DELETE /sessions/:sessionId : Chat.findOneAndDelete({sessionId, userId})
DeleteBySessionId(d, u, sid) == d.sessionId = sid

DeleteFilter(d, u, sid) == d.sessionId = sid /\ d.userId = u

DeleteSession(u, sid) ==
  /\ IF \E d \in db : DeleteFilter(d, u, sid)
     THEN \E d \in {e \in db : DeleteFilter(e, u, sid)} :
          /\ db' = db \ {d}
          /\ lastOp' = Answer(u, 200)
     ELSE /\ lastOp' = Answer(u, 404)
          /\ UNCHANGED db
  /\ UNCHANGED <<reqs, clock, nextId, nlpVars, serviceVars, loanVars, uiVars>>

Next ==
  \/ \E u \in Users, t \in Titles, sid \in SessionIds : CreateSession(u, t, sid)
  \/ \E u \in Users, sid \in SessionIds : GetSession(u, sid)
  \/ \E r \in Reqs, u \in Users, sid \in SessionIds, b \in SendBodies :
        SendFind(r, u, sid, b)
  \/ \E r \in Reqs : SendSave(r)
  \/ \E r \in Reqs : SendSaveRejected(r)
  \/ \E r \in Reqs, u \in Users, sid \in SessionIds, b \in UpdateBodies :
        UpdateFind(r, u, sid, b)
  \/ \E r \in Reqs : UpdateSave(r)
  \/ \E u \in Users, sid \in SessionIds : DeleteSession(u, sid)

Spec == Init /\ [][Next]_vars

(***************************************************************************)
(* Claims about the chat sessions, checked under Spec.                     *)
(***************************************************************************)
SameDoc(d, e) == e._id = d._id

\* C1: in every stored session every message of sender 'user' is immediately
\* followed by exactly one message of sender 'assistant', whatever the
\* interleaving of create, send-message, update and delete requests.
UserMessagesPaired ==
  \A d \in db : \A i \in 1..Len(d.messages) :
    d.messages[i].sender = "user" =>
      /\ i < Len(d.messages)
      /\ d.messages[i + 1].sender = "assistant"
      /\ i + 2 <= Len(d.messages) => d.messages[i + 2].sender # "assistant"

\* a send-message was stored while another request that read the session
\* before it is still in flight
OverlappingSendStored ==
  \E d \in db, r \in Reqs :
    /\ reqs[r].pc = "sendPushed"
    /\ reqs[r].doc._id = d._id
    /\ Len(reqs[r].doc.messages) < Len(d.messages)
    /\ \E i \in 1..Len(d.messages) : d.messages[i].sender = "user"

\* C2: the stored message list is append-only: every step leaves a session's
\* list unchanged or extends it by exactly two messages (user, then
\* assistant), which only a successful send-message does, and every
\* successful send-message does extend its session's list.
ExtendedByPair(d, e) ==
  /\ Len(e.messages) = Len(d.messages) + 2
  /\ SubSeq(e.messages, 1, Len(d.messages)) = d.messages
  /\ e.messages[Len(d.messages) + 1].sender = "user"
  /\ e.messages[Len(d.messages) + 2].sender = "assistant"

MessagesAppendOnly ==
  [][ /\ \A d \in db : \A e \in db' : SameDoc(d, e) =>
           \/ e.messages = d.messages
           \/ /\ ExtendedByPair(d, e)
              /\ lastOp'.code = 200
              /\ \E r \in Reqs : SendSave(r)
      /\ \A r \in Reqs : (SendSave(r) /\ lastOp'.code = 200) =>
           \E d \in db : \E e \in db' :
              SameDoc(d, e) /\ e._id = reqs[r].doc._id /\ ExtendedByPair(d, e)
    ]_vars

\* two overlapping send-messages have both been stored
TwoPairsStored ==
  \E d \in db : Len(d.messages) = 5

\* C3: sessionId (and the owner) of a stored session never change, update
\* changes only title, status and tags, send-message changes only the
\* message list and lastActivity, and no two stored sessions share a sessionId.
SessionIdsUnique ==
  \A d \in db : \A e \in db : d.sessionId = e.sessionId => d = e

SessionFrame ==
  \A d \in db : \A e \in db' : SameDoc(d, e) =>
    /\ e.sessionId = d.sessionId
    /\ e.userId = d.userId
    /\ (e.title # d.title \/ e.status # d.status \/ e.tags # d.tags) =>
          /\ e.messages = d.messages /\ e.lastActivity = d.lastActivity
          /\ \E r \in Reqs : UpdateSave(r)
    /\ (e.messages # d.messages \/ e.lastActivity # d.lastActivity) =>
          /\ e.title = d.title /\ e.status = d.status /\ e.tags = d.tags
          /\ \E r \in Reqs : SendSave(r)

RemovedOnlyByOwnerDelete ==
  [][ \A d \in db : (\A e \in db' : ~SameDoc(d, e)) =>
         /\ lastOp'.user = d.userId
         /\ lastOp'.code = 200
         /\ DeleteSession(d.userId, d.sessionId)
    ]_vars

\* a session that was created is no longer stored, while another one is
SessionDeleted ==
  /\ nextId = 3
  /\ Cardinality(db) = 1
  /\ lastOp.code = 200

(***************************************************************************)
(* The scoring functions of backend/services/nlpService.js.                *)
(*                                                                         *)
(* Weights and scores are integers in hundredths (3.0 is 300).  A          *)
(* normalized score is a quotient, kept as a fraction in lowest terms, so  *)
(* two scores are equal exactly when their records are equal.  JavaScript  *)
(* computes the same quantities in binary floating point; the sums here    *)
(* are exact.                                                              *)
(***************************************************************************)
UpperCase == "ABCDEFGHIJKLMNOPQRSTUVWXYZ"
LowerCase == "abcdefghijklmnopqrstuvwxyz"

LowerChar(c) ==
  IF \E i \in 1..Len(UpperCase) : SubSeq(UpperCase, i, i) = c
  THEN LET i == CHOOSE k \in 1..Len(UpperCase) : SubSeq(UpperCase, k, k) = c
       IN SubSeq(LowerCase, i, i)
  ELSE c

\* String.prototype.toLowerCase, character by character (the string is
\* halved to keep the evaluation shallow)
RECURSIVE toLowerCase(_)
toLowerCase(s) ==
  IF Len(s) = 0 THEN ""
  ELSE IF Len(s) = 1 THEN LowerChar(s)
  ELSE LET half == Len(s) \div 2
       IN toLowerCase(SubSeq(s, 1, half)) \o toLowerCase(SubSeq(s, half + 1, Len(s)))

\* String.prototype.includes: t occurs in s as a substring ('' always does)
Includes(s, t) ==
  \/ Len(t) = 0
  \/ \E i \in 1..(Len(s) - Len(t) + 1) : SubSeq(s, i, i + Len(t) - 1) = t

\* String.prototype.split(/\s+/): the pieces between maximal runs of white
\* space; a leading or trailing run leaves an empty piece, '' gives [''].
Split(s) ==
  LET space(i) == IsSpace(SubSeq(s, i, i))
      runStarts == {i \in 1..Len(s) : space(i) /\ (i = 1 \/ ~space(i - 1))}
      runEnds == {i \in 1..Len(s) : space(i) /\ (i = Len(s) \/ ~space(i + 1))}
      nth(S, k) == CHOOSE i \in S : Cardinality({j \in S : j < i}) = k - 1
      n == Cardinality(runStarts)
  IN [k \in 1..(n + 1) |->
        SubSeq(s, IF k = 1 THEN 1 ELSE nth(runEnds, k - 1) + 1,
                  IF k = n + 1 THEN Len(s) ELSE nth(runStarts, k) - 1)] \o <<>>

\* Array.prototype.includes on an array of strings
ArrayIncludes(arr, w) == \E i \in 1..Len(arr) : arr[i] = w

RECURSIVE SumSeq(_)
SumSeq(s) == IF Len(s) = 0 THEN 0 ELSE s[1] + SumSeq(Tail(s))

RECURSIVE GCD(_, _)
GCD(a, b) == IF b = 0 THEN a ELSE GCD(b, a % b)

\* the quotient n / d (d > 0) in lowest terms
Quotient(n, d) == LET g == GCD(n, d) IN [num |-> n \div g, den |-> d \div g]

\* a.score - b.score >= 0 and > 0 for two quotients
ScoreGE(a, b) == a.num * b.den >= b.num * a.den
ScoreGT(a, b) == a.num * b.den > b.num * a.den

\* commonWords[word], 0 when the word is not a key (undefined is falsy)
commonWords(word) ==
  CASE word \in {"the", "a", "an", "and", "or", "but", "in", "on", "at", "to",
                 "for", "of", "with", "by"} -> 10
    [] word \in {"is", "are", "was", "were", "be", "been", "have", "has", "had",
                 "do", "does", "did", "will", "would", "could", "should", "may",
                 "might", "can"} -> 20
    [] word \in {"this", "that", "these", "those", "i", "you", "he", "she", "it",
                 "we", "they", "me", "him", "her", "us", "them"} -> 30
    [] word \in {"what", "how", "when", "where", "why", "who", "which"} -> 40
    [] OTHER -> 0

\* importantKeywords[word], 0 when the word is not a key
importantKeywords(word) ==
  CASE word \in {"loan", "borrow", "money", "amount", "emi", "installment"} -> 200
    [] word \in {"apply", "application", "process", "steps",
                 "documents", "papers", "kyc", "pan", "aadhaar", "bank statement",
                 "repay", "payment", "repayment", "pay",
                 "interest", "rate", "charges", "fees",
                 "eligible", "eligibility", "qualify", "requirements", "criteria",
                 "max", "maximum", "highest", "min", "minimum", "lowest",
                 "salary", "income", "salary requirement",
                 "reloan", "another loan", "second loan"} -> 180
    [] word \in {"fundobaba", "company", "about",
                 "contact", "support", "help", "phone", "email"} -> 150
    [] word \in {"thank", "thanks", "appreciate"} -> 100
    [] word \in {"hello", "hi", "hey", "good morning", "good evening",
                 "bye", "goodbye", "see you"} -> 80
    [] OTHER -> 0

ExactMatchScore == 300      \* totalScore += 3.0
DefaultWordScore == 100     \* totalScore += 1.0
PartialPercent == 70        \* importantKeywords[word] * 0.7, and += 0.7
QuestionBonus == 50         \* totalScore += 0.5

QuestionWords ==
  {"what", "how", "why", "when", "where", "who", "which",
   "can", "could", "would", "should"}

\* the word-match branch for one word of the pattern
WordMatchScore(messageWords, word) ==
  IF ~ArrayIncludes(messageWords, word) THEN 0
  ELSE IF importantKeywords(word) # 0 THEN importantKeywords(word)
  ELSE IF commonWords(word) # 0 THEN commonWords(word)
  ELSE DefaultWordScore

WordMatchCount(messageWords, word) ==
  IF ArrayIncludes(messageWords, word)
     /\ (importantKeywords(word) # 0 \/ commonWords(word) = 0)
  THEN 1 ELSE 0

\* the partial-match branch for one word of the pattern and one of the message
PartialMatchScore(word, msgWord) ==
  IF Includes(msgWord, word) \/ Includes(word, msgWord)
  THEN IF importantKeywords(word) # 0
       THEN (importantKeywords(word) * PartialPercent) \div 100
       ELSE IF commonWords(word) = 0
            THEN (DefaultWordScore * PartialPercent) \div 100
            ELSE 0
  ELSE 0

\* the body of responsePatterns.forEach: the entry pushed for one pattern
PatternScore(messageLower, pattern, index) ==
  LET patternLower == toLowerCase(pattern)
      exact == Includes(messageLower, patternLower)
      messageWords == Split(messageLower)
      patternWords == Split(patternLower)
      wordScores == [i \in 1..Len(patternWords) |->
                       WordMatchScore(messageWords, patternWords[i])]
      wordCounts == [i \in 1..Len(patternWords) |->
                       WordMatchCount(messageWords, patternWords[i])]
      partialScores == [i \in 1..Len(patternWords) |->
                          SumSeq([j \in 1..Len(messageWords) |->
                             PartialMatchScore(patternWords[i], messageWords[j])])]
      isQuestion == \E q \in QuestionWords : Includes(messageLower, q)
      totalScore == (IF exact THEN ExactMatchScore ELSE 0)
                    + SumSeq(wordScores) + SumSeq(partialScores)
                    + (IF isQuestion THEN QuestionBonus ELSE 0)
      keywordCount == (IF exact THEN 1 ELSE 0) + SumSeq(wordCounts)
  IN [pattern |-> pattern,
      score |-> IF keywordCount > 0 THEN Quotient(totalScore, keywordCount)
                ELSE Quotient(totalScore, 1),
      totalScore |-> totalScore,
      keywordCount |-> keywordCount,
      index |-> index]

\* rank (1 is first) that the sort gives to entry i of scores: behind every
\* entry with a greater score and, the sort being stable, behind the entries
\* of equal score pushed before it (pushed after it, in the variant)
RankReversingTies(scores, i) ==
  1 + Cardinality({j \in 1..Len(scores) :
                     \/ ScoreGT(scores[j].score, scores[i].score)
                     \/ j > i /\ scores[j].score = scores[i].score})

Rank(scores, i) ==
  1 + Cardinality({j \in 1..Len(scores) :
                     \/ ScoreGT(scores[j].score, scores[i].score)
                     \/ j < i /\ scores[j].score = scores[i].score})

\* scores.sort((a, b) => b.score - a.score), a stable sort (ECMAScript 2019)
SortByScore(scores) ==
  LET rank == [i \in 1..Len(scores) |-> Rank(scores, i)] \o <<>>
  IN [k \in 1..Len(scores) |->
        scores[CHOOSE i \in 1..Len(scores) : rank[i] = k]]

\* the array scores after responsePatterns.forEach, in declaration order
\* (appending the empty array leaves it as it is and has it computed once)
PushedScores(userMessage, responsePatterns) ==
  LET messageLower == toLowerCase(userMessage)
  IN [i \in 1..Len(responsePatterns) |->
        PatternScore(messageLower, responsePatterns[i], i - 1)] \o <<>>

calculateResponseScore(userMessage, responsePatterns) ==
  SortByScore(PushedScores(userMessage, responsePatterns))

\* scores[0].score >= threshold (a strict test in the variant)
ExceedsThreshold(score, threshold) == score.num > threshold * score.den

ReachesThreshold(score, threshold) == score.num >= threshold * score.den

ConfidenceScale == 300     \* scores[0].score / 3.0

\* Math.min(score / 3.0, 1.0)
Confidence(score) ==
  IF score.num >= ConfidenceScale * score.den THEN Quotient(1, 1)
  ELSE Quotient(score.num, ConfidenceScale * score.den)

DefaultThreshold == 50      \* threshold = 0.5

\* null is None, an object is Some(object)
selectBestResponse(userMessage, responsePatterns, threshold) ==
  LET scores == calculateResponseScore(userMessage, responsePatterns)
  IN IF Len(scores) > 0 /\ ReachesThreshold(scores[1].score, threshold)
     THEN Some([pattern |-> scores[1].pattern,
                score |-> scores[1].score,
                confidence |-> Confidence(scores[1].score),
                allScores |-> scores])
     ELSE None

(***************************************************************************)
(* The pattern fallback of backend/routes/chat.js.  Each response text is  *)
(* abbreviated to its opening words; distinct texts stay distinct.         *)
(***************************************************************************)
EmiResponse == "No, we currently don't offer EMI format."
LoanAmountResponse == "We offer loan amounts ranging from"
MinimumLoanResponse == "The minimum loan amount we offer is"
SalaryResponse == "The minimum salary requirement to take a loan is"
RepaymentResponse == "You are obliged to repay the loan."
CriteriaResponse == "To get a loan from Fundobaba, you need:"
ReloanResponse == "To take a reloan:"
GratitudeResponse == "You're most welcome!"
UnderstandingResponse == "Great!"
ClosingResponse == "Perfect!"
HelpResponse == "I'm here to help you with Fundobaba's quick pay-day loan services."
FallbackResponse == "Thank you for your question!"

WithResponse(patterns, response) ==
  [i \in 1..Len(patterns) |-> [pattern |-> patterns[i], response |-> response]]

responsePatterns ==
  WithResponse(<<"emi", "installment", "monthly payment">>, EmiResponse)
  \o
  WithResponse(<<"max loan", "maximum loan", "highest loan", "loan range",
                 "max amount", "maximum amount", "highest amount">>,
               LoanAmountResponse)
  \o
  WithResponse(<<"min loan", "minimum loan", "lowest loan", "min amount",
                 "minimum amount">>,
               MinimumLoanResponse)
  \o
  WithResponse(<<"salary", "income", "minimum salary", "salary requirement",
                 "income requirement">>,
               SalaryResponse)
  \o
  WithResponse(<<"dont repay", "don't repay", "not repay", "miss payment",
                 "late payment", "default">>,
               RepaymentResponse)
  \o
  WithResponse(<<"criteria", "eligibility criteria", "loan criteria",
                 "requirements", "qualification", "what needed", "eligible">>,
               CriteriaResponse)
  \o
  WithResponse(<<"reloan", "re loan", "another loan", "second loan",
                 "next loan", "take another loan", "how to take reloan">>,
               ReloanResponse)
  \o
  WithResponse(<<"thank", "thank you so much", "appreciate it",
                 "much appreciated", "thnx", "thanks">>,
               GratitudeResponse)
  \o
  WithResponse(<<"got it", "ok", "okay", "alright", "understood",
                 "makes sense", "i see", "gotcha", "cool", "sounds good",
                 "noted", "copy that">>,
               UnderstandingResponse)
  \o
  WithResponse(<<"thats all", "that's all", "no further questions",
                 "that helps", "will check", "will try that", "ill get back",
                 "i'll get back", "talk later">>,
               ClosingResponse)
  \o
  WithResponse(<<"help me", "help", "assist", "support">>, HelpResponse)

PatternThreshold == 30      \* selectBestResponse(userMessage, patterns, 0.3)

\* responsePatterns.find(rp => rp.pattern === pattern).response
ResponseFor(pattern) ==
  LET i == CHOOSE k \in 1..Len(responsePatterns) :
             /\ responsePatterns[k].pattern = pattern
             /\ \A j \in 1..(k - 1) : responsePatterns[j].pattern # pattern
  IN responsePatterns[i].response

generatePatternBasedResponse(userMessage) ==
  LET patterns == [i \in 1..Len(responsePatterns) |-> responsePatterns[i].pattern]
      bestMatch == selectBestResponse(userMessage, patterns, PatternThreshold)
  IN IF bestMatch # None THEN ResponseFor(bestMatch[1].pattern)
     ELSE FallbackResponse

(***************************************************************************)
(* Semantic context and conversation topic (nlpService.js).                *)
(***************************************************************************)
\* semanticCategories, in declaration order
semanticCategories ==
  << [category |-> "loan_inquiry",
      context |-> "user wants to know about loan options and amounts",
      keywords |-> <<"loan", "borrow", "money", "amount", "how much",
                     "get loan", "need money", "financial help">>],
     [category |-> "application_process",
      context |-> "user wants to understand the application process",
      keywords |-> <<"apply", "application", "process", "how to apply",
                     "steps", "procedure", "apply for loan">>],
     [category |-> "eligibility",
      context |-> "user wants to check their eligibility",
      keywords |-> <<"eligible", "qualify", "requirements", "criteria",
                     "can i get", "am i eligible", "qualification">>],
     [category |-> "documents",
      context |-> "user wants to know about required documents",
      keywords |-> <<"documents", "papers", "kyc", "pan", "aadhaar",
                     "bank statement", "salary slip", "proof">>],
     [category |-> "repayment",
      context |-> "user wants to understand repayment terms",
      keywords |-> <<"repay", "payment", "emi", "installment", "due date",
                     "pay back", "repayment">>],
     [category |-> "interest_charges",
      context |-> "user wants to know about interest rates and charges",
      keywords |-> <<"interest", "rate", "charges", "fees", "cost",
                     "how much interest", "charges">>],
     [category |-> "company_info",
      context |-> "user wants to know about the company",
      keywords |-> <<"company", "fundobaba", "about", "what is",
                     "legitimate", "safe", "trust">>],
     [category |-> "support_contact",
      context |-> "user wants to contact support",
      keywords |-> <<"contact", "support", "help", "phone", "email",
                     "customer service", "human">>],
     [category |-> "technical_issues",
      context |-> "user is facing technical issues",
      keywords |-> <<"problem", "issue", "error", "not working",
                     "technical", "bug", "trouble">>],
     [category |-> "loan_status",
      context |-> "user wants to check loan status",
      keywords |-> <<"status", "track", "check", "approved", "disbursed",
                     "pending", "rejected">>] >>

\* score / data.keywords.length of one category
CategoryScore(messageLower, data) ==
  Quotient(Cardinality({k \in 1..Len(data.keywords) :
                          Includes(messageLower, data.keywords[k])}),
           Len(data.keywords))

\* the loop over Object.entries(semanticCategories): best after the first n
RECURSIVE BestCategory(_, _)
BestCategory(messageLower, n) ==
  IF n = 0 THEN [category |-> None, score |-> Quotient(0, 1),
                 context |-> "general inquiry"]
  ELSE LET best == BestCategory(messageLower, n - 1)
           score == CategoryScore(messageLower, semanticCategories[n])
       IN IF ScoreGT(score, best.score)
          THEN [category |-> Some(semanticCategories[n].category),
                score |-> score,
                context |-> semanticCategories[n].context]
          ELSE best

relatedTopics(currentCategory) ==
  CASE currentCategory = "loan_inquiry" ->
         <<"application_process", "eligibility", "interest_charges">>
    [] currentCategory = "application_process" ->
         <<"documents", "eligibility", "loan_inquiry">>
    [] currentCategory = "documents" ->
         <<"kyc", "application_process", "eligibility">>
    [] currentCategory = "repayment" -> <<"interest_charges", "loan_inquiry">>
    [] currentCategory = "interest_charges" -> <<"loan_inquiry", "repayment">>
    [] currentCategory = "company_info" -> <<"support_contact", "loan_inquiry">>
    [] OTHER -> <<>>

findRelatedTopics(message) ==
  LET messageLower == toLowerCase(message)
      has(w) == Includes(messageLower, w)
      currentCategory ==
        IF has("loan") \/ has("borrow") \/ has("money") THEN "loan_inquiry"
        ELSE IF has("apply") \/ has("process") \/ has("steps")
             THEN "application_process"
        ELSE IF has("documents") \/ has("papers") \/ has("kyc") THEN "documents"
        ELSE IF has("repay") \/ has("payment") \/ has("emi") THEN "repayment"
        ELSE IF has("interest") \/ has("rate") \/ has("charges")
             THEN "interest_charges"
        ELSE IF has("company") \/ has("fundobaba") \/ has("about")
             THEN "company_info"
        ELSE "null"
  IN relatedTopics(currentCategory)

\* category is None for null
analyzeSemanticContext(message) ==
  LET best == BestCategory(toLowerCase(message), Len(semanticCategories))
  IN [category |-> best.category,
      confidence |-> best.score,
      context |-> best.context,
      relatedTopics |-> findRelatedTopics(message)]

\* topics, the object literal of identifyConversationTopic: its entries in
\* insertion order, each a pair <<key, count>>
InitialTopics ==
  << <<"loan_inquiry", 0>>, <<"application", 0>>, <<"documents", 0>>,
     <<"repayment", 0>>, <<"support", 0>>, <<"technical", 0>> >>

HasKey(topics, key) == \E i \in 1..Len(topics) : topics[i][1] = key

\* topics[key], None when the object has no such property (undefined)
Property(topics, key) ==
  IF HasKey(topics, key)
  THEN Some(topics[CHOOSE i \in 1..Len(topics) : topics[i][1] = key][2])
  ELSE None

\* topics[category] = (topics[category] || 0) + 1; a new key is appended
Increment(topics, category) ==
  IF HasKey(topics, category)
  THEN [i \in 1..Len(topics) |->
          IF topics[i][1] = category THEN <<category, topics[i][2] + 1>>
          ELSE topics[i]]
  ELSE Append(topics, <<category, 1>>)

\* recentMessages.forEach: the topics after the first n messages
RECURSIVE CountTopics(_, _)
CountTopics(recentMessages, n) ==
  IF n = 0 THEN InitialTopics
  ELSE LET topics == CountTopics(recentMessages, n - 1)
           context == analyzeSemanticContext(recentMessages[n])
       IN IF context.category # None
          THEN Increment(topics, context.category[1])
          ELSE topics

DecimalDigits == "0123456789"

\* Number.prototype.toString of a non-negative integer
RECURSIVE NumberToString(_)
NumberToString(n) ==
  IF n < 10 THEN SubSeq(DecimalDigits, n + 1, n + 1)
  ELSE NumberToString(n \div 10) \o SubSeq(DecimalDigits, (n % 10) + 1, (n % 10) + 1)

\* the property name an entry [key, count] is converted to when it is used
\* as an index: Array.prototype.toString joins the elements with ','
EntryPropertyName(entry) == entry[1] \o "," \o NumberToString(entry[2])

\* x > y on two property values; a comparison with undefined is false
GreaterThan(x, y) == x # None /\ y # None /\ x[1] > y[1]

\* the callback (a, b) => topics[a] > topics[b] ? a : b, called with entries
MoreDiscussed(topics, a, b) ==
  IF GreaterThan(Property(topics, EntryPropertyName(a)),
                 Property(topics, EntryPropertyName(b)))
  THEN a ELSE b

\* Object.entries(topics).reduce(callback) over the first n entries
RECURSIVE ReduceTopics(_, _)
ReduceTopics(topics, n) ==
  IF n = 1 THEN topics[1]
  ELSE MoreDiscussed(topics, ReduceTopics(topics, n - 1), topics[n])

RecentWindow == 5           \* conversationHistory.slice(-5)

Slice(history) ==
  IF Len(history) <= RecentWindow THEN history
  ELSE SubSeq(history, Len(history) - RecentWindow + 1, Len(history))

MaxCount(topics) ==
  CHOOSE m \in {topics[i][2] : i \in 1..Len(topics)} :
    \A i \in 1..Len(topics) : topics[i][2] <= m

identifyConversationTopic(conversationHistory) ==
  IF Len(conversationHistory) = 0 THEN "new_conversation"
  ELSE LET recentMessages == Slice(conversationHistory)
           topics == CountTopics(recentMessages, Len(recentMessages))
       IN [primary |-> ReduceTopics(topics, Len(topics)),
           distribution |-> topics,
           consistency |-> Quotient(MaxCount(topics), Len(recentMessages))]

(***************************************************************************)
(* Intent recognition (nlpService.js).  The service holds a TfIdf of the   *)
(* package natural: one document per training phrase, keyed by its intent. *)
(* TfIdf tokenizes a lower-cased text at the characters that are not word  *)
(* characters, leaves the stop words out of a document, and measures a     *)
(* document against the terms of a query as the sum over the terms of      *)
(* tf * idf, with idf = 1 + ln(N / (1 + df)) for N documents of which df   *)
(* contain the term.  Measures are integers in thousandths.                *)
(***************************************************************************)
intentTrainingData ==
  << [intent |-> "loan_inquiry",
      phrases |-> <<"how much loan can i get", "what is the maximum loan amount",
                    "loan amount range", "borrow money", "get loan",
                    "loan amount">>],
     [intent |-> "application_process",
      phrases |-> <<"how to apply", "application process", "apply for loan",
                    "loan application steps", "how do i apply",
                    "application procedure">>],
     [intent |-> "eligibility",
      phrases |-> <<"am i eligible", "eligibility criteria", "loan requirements",
                    "qualify for loan", "can i get loan", "loan criteria">>],
     [intent |-> "repayment",
      phrases |-> <<"how to repay", "repayment process", "emi options",
                    "payment methods", "repay loan", "due date">>],
     [intent |-> "contact_support",
      phrases |-> <<"contact support", "help me", "customer service",
                    "talk to human", "phone number", "email support">>],
     [intent |-> "greeting",
      phrases |-> <<"hello", "hi", "hey", "good morning", "good evening",
                    "namaste">>],
     [intent |-> "gratitude",
      phrases |-> <<"thank you", "thanks", "appreciate it",
                    "thank you so much">>],
     [intent |-> "farewell",
      phrases |-> <<"bye", "goodbye", "see you", "talk later">>] >>

\* the English stop words of natural
stopwords ==
  {"about", "above", "after", "again", "all", "also", "am", "an", "and",
   "another", "any", "are", "as", "at", "be", "because", "been", "before",
   "being", "below", "between", "both", "but", "by", "came", "can", "cannot",
   "come", "could", "did", "do", "does", "doing", "during", "each", "few",
   "for", "from", "further", "get", "got", "has", "had", "he", "have", "her",
   "here", "him", "himself", "his", "how", "if", "in", "into", "is", "it",
   "its", "itself", "like", "make", "many", "me", "might", "more", "most",
   "much", "must", "my", "myself", "never", "now", "of", "on", "only", "or",
   "other", "our", "ours", "ourselves", "out", "over", "own", "said", "same",
   "see", "should", "since", "so", "some", "still", "such", "take", "than",
   "that", "the", "their", "theirs", "them", "themselves", "then", "there",
   "these", "they", "this", "those", "through", "to", "too", "under", "until",
   "up", "very", "was", "way", "we", "well", "were", "what", "where", "when",
   "which", "while", "who", "whom", "with", "would", "why", "you", "your",
   "yours", "yourself", "_"}
  \cup {SubSeq(LowerCase, i, i) : i \in 1..Len(LowerCase)}
  \cup {SubSeq(DecimalDigits, i, i) : i \in 1..Len(DecimalDigits)}

WordChars == LowerCase \o UpperCase \o DecimalDigits \o "_"

IsWordChar(c) == \E i \in 1..Len(WordChars) : SubSeq(WordChars, i, i) = c

\* the tokenizer of TfIdf: the maximal runs of word characters, in order
tokenize(text) ==
  LET word(i) == IsWordChar(SubSeq(text, i, i))
      starts == {i \in 1..Len(text) : word(i) /\ (i = 1 \/ ~word(i - 1))}
      start(k) == CHOOSE i \in starts : Cardinality({j \in starts : j < i}) = k - 1
      end(i) == CHOOSE j \in i..Len(text) :
                  /\ \A m \in i..j : word(m)
                  /\ (j = Len(text) \/ ~word(j + 1))
  IN [k \in 1..Cardinality(starts) |-> SubSeq(text, start(k), end(start(k)))] \o <<>>

\* this.tfidf.addDocument(phrase, intent): the terms of the phrase that are
\* no stop words, under the key
buildDocument(text, key) ==
  [key |-> key,
   terms |-> SelectSeq(tokenize(toLowerCase(text)), LAMBDA t : t \notin stopwords)]

\* the documents after the constructor's loops, in the order they were added
RECURSIVE AddDocuments(_)
AddDocuments(n) ==
  IF n = 0 THEN <<>>
  ELSE LET data == intentTrainingData[n]
       IN AddDocuments(n - 1)
          \o [i \in 1..Len(data.phrases) |->
                buildDocument(data.phrases[i], data.intent)]

documents == AddDocuments(Len(intentTrainingData))

\* new NLPService(): the fields of the instance that its methods read, the
\* TfIdf with its documents and its cache of idf values, a set of
\* <<term, idf>>, empty until the first measure is taken
NewNLPService ==
  [intentTrainingData |-> intentTrainingData,
   tfidf |-> [documents |-> documents, idfCache |-> {}]]

\* const nlpService = new NLPService() of backend/routes/chat.js
nlpService == NewNLPService

\* occurrences of the term in the document
tf(term, document) ==
  Cardinality({i \in 1..Len(document.terms) : document.terms[i] = term})

\* 1 + ln(N / (1 + df)) for the N = 44 training phrases and df = 0, 1, ...,
\* in thousandths, rounded
IdfTable ==
  <<4784, 4091, 3686, 3398, 3175, 2992, 2838, 2705, 2587, 2482, 2386, 2299,
    2219, 2145>>

\* TfIdf.idf(term): the cached value when there is one
idf(tfidfObject, term) ==
  LET cached == {e \in tfidfObject.idfCache : e[1] = term}
      docsWithTerm == Cardinality({d \in 1..Len(tfidfObject.documents) :
                                     tf(term, tfidfObject.documents[d]) > 0})
  IN IF cached # {} THEN (CHOOSE e \in cached : TRUE)[2]
     ELSE IdfTable[docsWithTerm + 1]

\* the measure of document d against the terms of the query
tfidf(tfidfObject, terms, idfs, d) ==
  SumSeq([i \in 1..Len(terms) |-> tf(terms[i], tfidfObject.documents[d]) * idfs[i]])

\* tfidfs(text, callback): the measures of all documents, in their order
tfidfs(tfidfObject, text) ==
  LET terms == tokenize(toLowerCase(text))
      idfs == [i \in 1..Len(terms) |-> idf(tfidfObject, terms[i])] \o <<>>
  IN [d \in 1..Len(tfidfObject.documents) |->
        tfidf(tfidfObject, terms, idfs, d)] \o <<>>

\* the variant in which the text is added as a document (addDocument
\* empties the cache)
DocumentAdded(tfidfObject, text) ==
  [documents |-> Append(tfidfObject.documents, buildDocument(text, "message")),
   idfCache |-> {}]

\* the TfIdf after tfidfs(text): idf has stored the value of every term
IdfsCached(tfidfObject, text) ==
  LET terms == tokenize(toLowerCase(text))
  IN [tfidfObject EXCEPT
        !.idfCache = IF Len(tfidfObject.documents) = 0 THEN @
                     ELSE @ \cup {<<terms[i], idf(tfidfObject, terms[i])>> :
                                    i \in 1..Len(terms)}]

\* scores after the callback (i, measure, key) has been called for every
\* document: if (!scores[key]) scores[key] = 0; scores[key] += measure.  The
\* object is kept as its entries <<key, score>> in insertion order: a key is
\* inserted at the first document that has it, and its score is the sum of
\* the measures of the documents that have it.
IntentScores(docs, measures) ==
  LET n == Len(docs)
      firstWithKey == {d \in 1..n : \A e \in 1..(d - 1) : docs[e].key # docs[d].key}
      nth(S, k) == CHOOSE i \in S : Cardinality({j \in S : j < i}) = k - 1
      key(k) == docs[nth(firstWithKey, k)].key
      withKey(k) == {d \in 1..n : docs[d].key = key(k)}
      added(k) == [j \in 1..Cardinality(withKey(k)) |->
                     measures[nth(withKey(k), j)]]
  IN [k \in 1..Cardinality(firstWithKey) |-> <<key(k), SumSeq(added(k))>>] \o <<>>

\* if (score > bestScore) (>= in the variant)
BeatsOrEqualsBest(score, bestScore) == score >= bestScore

BeatsBest(score, bestScore) == score > bestScore

\* Object.entries(scores).forEach: the best after the first n entries
RECURSIVE BestIntent(_, _)
BestIntent(scores, n) ==
  IF n = 0 THEN [intent |-> "general_inquiry", score |-> 0]
  ELSE LET best == BestIntent(scores, n - 1)
       IN IF BeatsBest(scores[n][2], best.score)
          THEN [intent |-> scores[n][1], score |-> scores[n][2]]
          ELSE best

\* the value returned; the instance after the call is AfterRecognizeIntent
recognizeIntent(this, message) ==
  LET messageLower == toLowerCase(message)
      measures == tfidfs(this.tfidf, messageLower)
      scores == IntentScores(this.tfidf.documents, measures)
      best == BestIntent(scores, Len(scores))
  IN [intent |-> best.intent, confidence |-> best.score, scores |-> scores]

AfterRecognizeIntent(this, message) ==
  [this EXCEPT !.tfidf = IdfsCached(@, toLowerCase(message))]

(***************************************************************************)
(* User journey and urgency (nlpService.js).                               *)
(***************************************************************************)
\* journeyStages of analyzeUserJourney, in declaration order
journeyStages ==
  << [stage |-> "awareness",
      keywords |-> <<"hello", "hi", "what is", "about", "company">>],
     [stage |-> "interest",
      keywords |-> <<"loan", "amount", "how much", "interest", "charges">>],
     [stage |-> "consideration",
      keywords |-> <<"apply", "process", "documents", "eligibility",
                     "requirements">>],
     [stage |-> "application",
      keywords |-> <<"apply now", "start application", "begin process">>],
     [stage |-> "post_application",
      keywords |-> <<"status", "track", "approved", "disbursed">>],
     [stage |-> "support",
      keywords |-> <<"help", "contact", "problem", "issue">>] >>

StageWindow == 3            \* conversationHistory.slice(-3)

\* Array.prototype.slice(-n)
SliceLast(history, n) ==
  IF Len(history) <= n THEN history
  ELSE SubSeq(history, Len(history) - n + 1, Len(history))

\* stageScores[stage] after the loops over the messages and the keywords
StageScore(recentMessages, keywords) ==
  Cardinality({<<m, k>> \in (1..Len(recentMessages)) \X (1..Len(keywords)) :
                 Includes(toLowerCase(recentMessages[m]), keywords[k])})

\* the callback (a, b) => stageScores[a[0]] > stageScores[b[0]] ? a : b
HigherStage(stageScores, a, b) ==
  IF GreaterThan(Property(stageScores, a[1]), Property(stageScores, b[1]))
  THEN a ELSE b

\* Object.entries(stageScores).reduce(callback) over the first n entries
RECURSIVE ReduceStages(_, _)
ReduceStages(stageScores, n) ==
  IF n = 1 THEN stageScores[1]
  ELSE HigherStage(stageScores, ReduceStages(stageScores, n - 1), stageScores[n])

determineUserStage(conversationHistory, stages) ==
  LET recentMessages == SliceLast(conversationHistory, StageWindow)
      stageScores == [k \in 1..Len(stages) |->
                        <<stages[k].stage,
                          StageScore(recentMessages, stages[k].keywords)>>] \o <<>>
  IN ReduceStages(stageScores, Len(stageScores))[1]

urgentKeywords ==
  <<"urgent", "emergency", "asap", "immediately", "now", "quick", "fast", "hurry">>

UrgentKeywordScore == 100       \* urgencyScore += 1
NegativeSentimentScore == 50    \* urgencyScore += 0.5
NegativeSentimentLimit == 30    \* sentiment.score < -0.3
UrgencyCap == 100               \* Math.min(urgencyScore, 1)
HighUrgency == 70               \* urgencyScore > 0.7
MediumUrgency == 30             \* urgencyScore > 0.3

\* sentiment.score < -0.3 for a score kept as a quotient
IsNegative(score) == score.num * 100 < (0 - NegativeSentimentLimit) * score.den

\* the score returned as it is (the variant without the cap)
Uncapped(urgencyScore) == urgencyScore

\* Math.min(urgencyScore, 1)
Capped(urgencyScore) ==
  IF urgencyScore < UrgencyCap THEN urgencyScore ELSE UrgencyCap

\* scores in hundredths
assessUrgency(message, sentiment) ==
  LET messageLower == toLowerCase(message)
      present == Cardinality({k \in 1..Len(urgentKeywords) :
                                Includes(messageLower, urgentKeywords[k])})
      urgencyScore == present * UrgentKeywordScore
                      + (IF IsNegative(sentiment.score)
                         THEN NegativeSentimentScore ELSE 0)
  IN [score |-> Capped(urgencyScore),
      level |-> IF urgencyScore > HighUrgency THEN "high"
                ELSE IF urgencyScore > MediumUrgency THEN "medium"
                ELSE "low"]

(***************************************************************************)
(* Fuzzy matching (nlpService.js).  A confidence is a quotient of 1.       *)
(* compareTwoStrings of the package string-similarity is the Dice          *)
(* coefficient of the two strings' character pairs, white space removed.   *)
(***************************************************************************)
\* first.replace(/\s+/g, ''): the pieces between the white space, joined
RECURSIVE Concat(_)
Concat(pieces) ==
  IF Len(pieces) = 0 THEN "" ELSE pieces[1] \o Concat(Tail(pieces))

RemoveSpaces(s) == Concat(Split(s))

\* the number of times the pair of characters occurs in the string
PairCount(s, pair) ==
  Cardinality({i \in 1..(Len(s) - 1) : SubSeq(s, i, i + 1) = pair})

compareTwoStrings(first, second) ==
  LET a == RemoveSpaces(first)
      b == RemoveSpaces(second)
      pairs == {SubSeq(a, i, i + 1) : i \in 1..(Len(a) - 1)}
      Least(x, y) == IF x < y THEN x ELSE y
      intersectionSize ==
        Cardinality({<<p, k>> \in pairs \X (1..Len(b)) :
                       k <= Least(PairCount(a, p), PairCount(b, p))})
  IN IF a = b THEN Quotient(1, 1)
     ELSE IF Len(a) < 2 \/ Len(b) < 2 THEN Quotient(0, 1)
     ELSE Quotient(2 * intersectionSize, Len(a) + Len(b) - 2)

\* keywordWords.every(kw => words.some(word => word.includes(kw) || kw.includes(word)))
hasWordBoundaryMatch(message, keyword) ==
  LET words == Split(message)
      keywordWords == Split(keyword)
  IN \A k \in 1..Len(keywordWords) :
       \E w \in 1..Len(words) :
         \/ Includes(words[w], keywordWords[k])
         \/ Includes(keywordWords[k], words[w])

FuzzyThreshold == 60        \* threshold = 0.6

\* the body of patterns.forEach for one pattern (a string is one keyword)
MatchStep(messageLower, best, pattern, threshold) ==
  LET keywordLower == toLowerCase(pattern)
      similarity == compareTwoStrings(messageLower, keywordLower)
      better(score) == IF ScoreGT(score, best.confidence)
                       THEN [match |-> Some(pattern), confidence |-> score]
                       ELSE best
  IN IF Includes(messageLower, keywordLower) THEN better(Quotient(1, 1))
     ELSE IF hasWordBoundaryMatch(messageLower, keywordLower)
          THEN better(Quotient(9, 10))
          ELSE IF /\ ScoreGT(similarity, best.confidence)
                  /\ similarity.num * 100 >= threshold * similarity.den
               THEN [match |-> Some(pattern), confidence |-> similarity]
               ELSE best

\* patterns.forEach over the first n patterns; match is None for null
RECURSIVE BestMatch(_, _, _, _)
BestMatch(messageLower, patterns, threshold, n) ==
  IF n = 0 THEN [match |-> None, confidence |-> Quotient(0, 1)]
  ELSE MatchStep(messageLower, BestMatch(messageLower, patterns, threshold, n - 1),
                 patterns[n], threshold)

findBestMatch(userMessage, patterns, threshold) ==
  BestMatch(toLowerCase(userMessage), patterns, threshold, Len(patterns))

\* variations of findPatternMatch, in declaration order
variations ==
  << [pattern |-> "max loan",
      variations |-> <<"max loan", "maximum loan", "highest loan", "loan range",
                       "loan amount range", "max amount", "maximum amount",
                       "highest amount", "what max amount",
                       "what maximum amount", "what highest amount",
                       "max amount anyone can get",
                       "maximum amount anyone can get">>],
     [pattern |-> "min loan",
      variations |-> <<"min loan", "minimum loan", "lowest loan",
                       "minimum amount", "lowest amount", "what min amount",
                       "what minimum amount">>],
     [pattern |-> "emi",
      variations |-> <<"emi", "installment", "monthly payment",
                       "partial payment", "monthly emi",
                       "installment payment">>],
     [pattern |-> "salary",
      variations |-> <<"salary", "income", "minimum salary",
                       "salary requirement", "income requirement",
                       "salary needed", "income needed">>],
     [pattern |-> "repayment",
      variations |-> <<"dont repay", "don't repay", "not repay", "miss payment",
                       "late payment", "default", "what if not repay",
                       "don't pay", "not pay", "repayment", "repay",
                       "payment">>],
     [pattern |-> "criteria",
      variations |-> <<"criteria", "eligibility criteria", "loan criteria",
                       "requirements", "qualification", "what needed",
                       "eligible", "eligibility">>],
     [pattern |-> "reloan",
      variations |-> <<"reloan", "re loan", "another loan", "second loan",
                       "next loan", "take another loan",
                       "how to take reloan">>],
     [pattern |-> "thank",
      variations |-> <<"thank", "thank you so much", "appreciate it",
                       "much appreciated", "thnx", "thanks">>],
     [pattern |-> "understanding",
      variations |-> <<"got it", "ok", "okay", "alright", "understood",
                       "makes sense", "i see", "gotcha", "cool", "sounds good",
                       "noted", "copy that">>],
     [pattern |-> "closing",
      variations |-> <<"thats all", "that's all", "no further questions",
                       "that helps", "will check", "will try that",
                       "ill get back", "i'll get back", "talk later">>],
     [pattern |-> "help",
      variations |-> <<"help me", "help", "assist", "support">>] >>

\* the first variation, in the order of the two loops, that the message
\* contains; otherwise the fuzzy match at the threshold 0.6
findPatternMatch(userMessage, patterns) ==
  LET messageLower == toLowerCase(userMessage)
      hit(p, v) == Includes(messageLower, toLowerCase(variations[p].variations[v]))
      hits == UNION {{<<p, v>> : v \in {u \in 1..Len(variations[p].variations) :
                                           hit(p, u)}} :
                     p \in 1..Len(variations)}
      first == CHOOSE h \in hits :
                 \A g \in hits : h[1] < g[1] \/ (h[1] = g[1] /\ h[2] <= g[2])
  IN IF hits # {}
     THEN [match |-> Some(variations[first[1]].pattern),
           confidence |-> Quotient(95, 100),
           matchedVariation |-> variations[first[1]].variations[first[2]]]
     ELSE findBestMatch(userMessage, patterns, FuzzyThreshold)

(***************************************************************************)
(* Context understanding (nlpService.js) and the contextual response tier  *)
(* (backend/routes/chat.js).  The context holds the fields that the        *)
(* service computes with its own code and with its TfIdf; the entities and *)
(* keywords, which the package compromise extracts from the message alone, *)
(* and the mood, complexity, progression, engagement and needs, which no   *)
(* response rule reads, are left out.                                      *)
(***************************************************************************)
positiveWords ==
  <<"good", "great", "excellent", "amazing", "wonderful", "happy", "thank",
    "thanks", "appreciate", "love", "like", "perfect", "awesome", "fantastic",
    "brilliant", "outstanding">>

negativeWords ==
  <<"bad", "terrible", "awful", "horrible", "sad", "angry", "frustrated",
    "disappointed", "hate", "dislike", "worst", "useless", "stupid",
    "annoying", "problem", "issue", "error">>

\* how many words of the list the message contains
WordsPresent(messageLower, words) ==
  Cardinality({k \in 1..Len(words) : Includes(messageLower, words[k])})

fallbackSentimentAnalysis(message) ==
  LET messageLower == toLowerCase(message)
      positiveCount == WordsPresent(messageLower, positiveWords)
      negativeCount == WordsPresent(messageLower, negativeWords)
      total == positiveCount + negativeCount
  IN [score |-> IF total > 0 THEN Quotient(positiveCount - negativeCount, total)
                ELSE Quotient(0, 1),
      positive |-> positiveCount,
      negative |-> negativeCount,
      neutral |-> IF total = 0 THEN 1 ELSE 0]

\* a compromise document has no sentiment method, so the fallback is taken
analyzeSentiment(message) == fallbackSentimentAnalysis(message)

questionTypes ==
  <<"what", "how", "when", "where", "why", "who", "which", "can", "could",
    "would", "should", "is", "are", "do", "does">>

\* /^word\b/i.test(message)
StartsWithWord(message, word) ==
  /\ Len(message) >= Len(word)
  /\ toLowerCase(SubSeq(message, 1, Len(word))) = word
  /\ \/ Len(message) = Len(word)
     \/ ~IsWordChar(SubSeq(message, Len(word) + 1, Len(word) + 1))

classifyQuestionType(message) ==
  IF \E k \in 1..Len(questionTypes) : StartsWithWord(message, questionTypes[k])
  THEN questionTypes[CHOOSE k \in 1..Len(questionTypes) :
                       /\ StartsWithWord(message, questionTypes[k])
                       /\ \A j \in 1..(k - 1) :
                            ~StartsWithWord(message, questionTypes[j])]
  ELSE "statement"

\* the string 'new_user' for an empty history, else an object with the stage
analyzeUserJourney(conversationHistory) ==
  IF Len(conversationHistory) = 0 THEN [string |-> "new_user"]
  ELSE [stage |-> determineUserStage(conversationHistory, journeyStages)]

\* userJourney.stage, None (undefined) on the string
StageOf(userJourney) ==
  IF "stage" \in DOMAIN userJourney THEN Some(userJourney.stage) ELSE None

\* the instance after recognizeIntent has been called for the first n of the
\* texts, in their order
RECURSIVE AfterIntents(_, _, _)
AfterIntents(this, texts, n) ==
  IF n = 0 THEN this
  ELSE AfterRecognizeIntent(AfterIntents(this, texts, n - 1), texts[n])

\* the context returned: recognizeIntent is called for the message and then
\* for each of the last 3 history messages
understandContext(this, message, conversationHistory) ==
  LET sentiment == analyzeSentiment(message)
      recent == SliceLast(conversationHistory, StageWindow)
      texts == <<message>> \o recent
  IN [currentIntent |-> recognizeIntent(this, message),
      sentiment |-> sentiment,
      conversationLength |-> Len(conversationHistory),
      previousIntents |->
        [i \in 1..Len(recent) |->
           recognizeIntent(AfterIntents(this, texts, i), recent[i])] \o <<>>,
      isFollowUp |-> Len(conversationHistory) > 0,
      semanticContext |-> analyzeSemanticContext(message),
      conversationTopic |-> identifyConversationTopic(conversationHistory),
      userJourney |-> analyzeUserJourney(conversationHistory),
      questionType |-> classifyQuestionType(message),
      urgency |-> assessUrgency(message, sentiment)]

\* the instance after understandContext
AfterUnderstandContext(this, message, conversationHistory) ==
  LET texts == <<message>> \o SliceLast(conversationHistory, StageWindow)
  IN AfterIntents(this, texts, Len(texts))

\* The response texts of the contextual tier, abbreviated to their opening
\* words; texts that differ stay different.
contextualResponses ==
  [AboutFundobaba |-> "Fundobaba is a leading digital lending platform",
   AboutFundobabaLegitimate |->
     "Fundobaba is a leading digital lending platform; completely legitimate",
   DocumentsNeeded |-> "For a Fundobaba loan, you only need:",
   LoanRangeHistory |->
     "At Fundobaba, we offer pay-day loans; credit history",
   LoanRangeScore |-> "At Fundobaba, we offer pay-day loans; credit score",
   InterestRates |-> "Our pay-day loan interest rates are competitive",
   ApplyingIsSimple |->
     "Applying for a Fundobaba pay-day loan is incredibly simple",
   HowToApply |-> "To apply for a Fundobaba loan:",
   HowMuch |-> "You can borrow between",
   HowLong |-> "The complete application process takes just 5 minutes!",
   HowToRepay |-> "Repaying your Fundobaba loan is easy:",
   CanGetLoan |-> "Yes, you can get a loan from Fundobaba",
   CanApply |->
     "Absolutely! You can apply for a Fundobaba loan right now.",
   CanRepayEarly |-> "Yes, you can repay your loan early!",
   WhyFundobaba |-> "Fundobaba stands out because:",
   WhyPan |-> "PAN and Aadhaar are required because:",
   GreatQuestion |->
     "Great question! Fundobaba offers quick pay-day loans",
   UrgentLoan |-> "I understand you need quick financial assistance!",
   ReadyToApply |-> "Perfect! You're ready to apply.",
   Qualify |-> "To qualify for a Fundobaba pay-day loan, you need:",
   Eligibility |-> "To get a loan from Fundobaba, you need: CIBIL score",
   ApplicationDocuments |-> "For your application, you'll need:",
   RepayDashboard |-> "To repay your loan:",
   RepaymentDate |-> "We'll show you the repayment date of your loan",
   InterestStarting |->
     "Our interest rates are competitive and transparent:",
   UrgentSupport |-> "For urgent support, please call us immediately",
   Support |-> "Call Support: +91 8882400700",
   TechnicalIssues |-> "I'm sorry you're experiencing technical issues.",
   LoanStatus |-> "You can check your loan status through your dashboard"]

\* null is None, a string is Some(string)
handleWhatQuestions(userMessage) ==
  LET message == toLowerCase(userMessage)
      has(w) == Includes(message, w)
  IN IF has("what is fundobaba") \/ has("what is this")
     THEN Some(contextualResponses.AboutFundobaba)
     ELSE IF has("what documents") \/ has("what papers") \/ has("what do i need")
     THEN Some(contextualResponses.DocumentsNeeded)
     ELSE IF \/ has("what amount") \/ has("what loan amount")
             \/ has("how much can i get") \/ has("what max amount")
             \/ has("what maximum amount")
     THEN Some(contextualResponses.LoanRangeHistory)
     ELSE IF has("what interest") \/ has("what rate") \/ has("what charges")
     THEN Some(contextualResponses.InterestRates)
     ELSE IF has("what is the process") \/ has("what are the steps")
     THEN Some(contextualResponses.ApplyingIsSimple)
     ELSE None

handleHowQuestions(userMessage) ==
  LET message == toLowerCase(userMessage)
      has(w) == Includes(message, w)
  IN IF has("how to apply") \/ has("how do i apply") THEN Some(contextualResponses.HowToApply)
     ELSE IF has("how much") /\ (has("loan") \/ has("borrow"))
     THEN Some(contextualResponses.HowMuch)
     ELSE IF has("how long") /\ (has("process") \/ has("time"))
     THEN Some(contextualResponses.HowLong)
     ELSE IF has("how to repay") \/ has("how do i pay") THEN Some(contextualResponses.HowToRepay)
     ELSE None

handleCapabilityQuestions(userMessage) ==
  LET message == toLowerCase(userMessage)
      has(w) == Includes(message, w)
  IN IF has("can i get") /\ has("loan") THEN Some(contextualResponses.CanGetLoan)
     ELSE IF has("can i apply") \/ has("can i borrow") THEN Some(contextualResponses.CanApply)
     ELSE IF has("can i repay early") \/ has("can i pay before")
     THEN Some(contextualResponses.CanRepayEarly)
     ELSE None

handleWhyQuestions(userMessage) ==
  LET message == toLowerCase(userMessage)
      has(w) == Includes(message, w)
  IN IF has("why fundobaba") \/ has("why choose") THEN Some(contextualResponses.WhyFundobaba)
     ELSE IF has("why pan") \/ has("why aadhaar") THEN Some(contextualResponses.WhyPan)
     ELSE None

handleLoanInquiry(context) ==
  IF StageOf(context.userJourney) = Some("awareness") THEN contextualResponses.GreatQuestion
  ELSE IF context.urgency.level = "high" THEN contextualResponses.UrgentLoan
  ELSE contextualResponses.LoanRangeScore

handleApplicationProcess(context) ==
  IF StageOf(context.userJourney) = Some("consideration") THEN contextualResponses.ReadyToApply
  ELSE contextualResponses.ApplyingIsSimple

handleEligibility(context) ==
  IF StageOf(context.userJourney) = Some("interest") THEN contextualResponses.Qualify
  ELSE contextualResponses.Eligibility

handleDocuments(context) ==
  IF StageOf(context.userJourney) = Some("consideration")
  THEN contextualResponses.ApplicationDocuments
  ELSE contextualResponses.DocumentsNeeded

handleRepayment(context) ==
  IF StageOf(context.userJourney) = Some("post_application")
  THEN contextualResponses.RepayDashboard
  ELSE contextualResponses.RepaymentDate

handleInterestCharges(context) ==
  IF StageOf(context.userJourney) = Some("interest") THEN contextualResponses.InterestStarting
  ELSE contextualResponses.InterestRates

handleCompanyInfo(context) ==
  IF StageOf(context.userJourney) = Some("awareness")
  THEN contextualResponses.AboutFundobabaLegitimate
  ELSE contextualResponses.AboutFundobaba

handleSupportContact(context) ==
  IF context.urgency.level = "high" THEN contextualResponses.UrgentSupport
  ELSE contextualResponses.Support

\* the handler of a semantic category
HandleCategory(category, context) ==
  CASE category = "loan_inquiry" -> handleLoanInquiry(context)
    [] category = "application_process" -> handleApplicationProcess(context)
    [] category = "eligibility" -> handleEligibility(context)
    [] category = "documents" -> handleDocuments(context)
    [] category = "repayment" -> handleRepayment(context)
    [] category = "interest_charges" -> handleInterestCharges(context)
    [] category = "company_info" -> handleCompanyInfo(context)
    [] category = "support_contact" -> handleSupportContact(context)
    [] category = "technical_issues" -> contextualResponses.TechnicalIssues
    [] category = "loan_status" -> contextualResponses.LoanStatus

generateContextualResponse(userMessage, context) ==
  LET questionType == context.questionType
      category == context.semanticContext.category
      message == toLowerCase(userMessage)
  IN IF questionType = "what" THEN handleWhatQuestions(userMessage)
     ELSE IF questionType = "how" THEN handleHowQuestions(userMessage)
     ELSE IF questionType \in {"can", "could"}
     THEN handleCapabilityQuestions(userMessage)
     ELSE IF questionType = "why" THEN handleWhyQuestions(userMessage)
     ELSE IF category # None THEN Some(HandleCategory(category[1], context))
     ELSE IF \/ Includes(message, "emi") \/ Includes(message, "installment")
             \/ Includes(message, "monthly payment")
     THEN Some(EmiResponse)
     ELSE None

\* if (response) return response (the variant returns it whatever it is)
ContextualOnly(response, userMessage) == response

ContextualOrPattern(response, userMessage) ==
  IF Truthy(response) THEN response
  ELSE Some(generatePatternBasedResponse(userMessage))

\* the returned string as Some(string), None for null
generateFundobabaResponse(userMessage, messageHistory) ==
  LET context == understandContext(nlpService, userMessage, messageHistory)
      response == generateContextualResponse(userMessage, context)
  IN ContextualOrPattern(response, userMessage)

(***************************************************************************)
(* SpecNLP: one call of a scoring function on an input from a bounded set. *)
(***************************************************************************)
MaxWords == 2       \* words in a message
MaxHistory == 6     \* messages in a conversation history

Vocabulary == {"", "Loan", "max", "thank", "why", "xyz"}

RECURSIVE Join(_)
Join(words) ==
  IF Len(words) = 0 THEN ""
  ELSE IF Len(words) = 1 THEN words[1]
  ELSE words[1] \o " " \o Join(Tail(words))

Messages == {Join(ws) : ws \in UNION {[1..n -> Vocabulary] : n \in 0..MaxWords}}

PatternPool == {"emi", "max loan", "Thank", "loan"}

PatternLists ==
  {<<>>} \cup {<<p>> : p \in PatternPool}
         \cup {<<p, q>> : p \in PatternPool, q \in PatternPool}
         \cup {<<"emi", "installment", "monthly payment">>,
               <<"max loan", "thank", "why not", "Thank you">>}

Thresholds == {0, PatternThreshold, DefaultThreshold}

HistoryMessages == {"I need a loan", "how to apply", "hello"}

Histories == UNION {[1..n -> HistoryMessages] : n \in 0..MaxHistory}

\* messages for the semantic analysis: sentences of the product's domain
\* beside the generated ones
SemanticMessages ==
  Messages \cup {"I want to apply for a loan", "hello", "how to apply",
                 "loan amount charges", "what are the charges",
                 "Check my loan status", "apply"}

\* messages for the intent recognition
IntentMessages ==
  Messages \cup {"loan", "process", "Hello", "thank you", "how to apply",
                 "I want to apply for a loan", "get loan amount",
                 "support", "see you later"}

\* messages and sentiments for the urgency assessment; a sentiment score is a
\* quotient between -1 and 1
UrgencyMessages ==
  {"", "I need a loan", "URGENT", "I need money now", "urgent, please hurry",
   "asap asap", "this is bad", "fast quick now"}

Sentiments ==
  {[score |-> Quotient(n, d)] : <<n, d>> \in {<<0 - 1, 1>>, <<0 - 1, 3>>,
                                               <<0 - 3, 10>>, <<0, 1>>, <<1, 1>>}}

\* messages for the fuzzy matching, some of them misspelt
FuzzyMessages ==
  {"", "xyz", "max", "Loan max", "maxloan", "Loam", "thnak you", "emu",
   "no EMI please", "than"}

\* messages and histories for the response generator
ResponseMessages ==
  {"", "xyz", "hello", "thank you", "ok", "What", "what is fundobaba",
   "what emi", "what about max loan", "how to apply", "How are you",
   "how much loan can I get", "can i get a loan", "Can you", "could you help",
   "why pan", "why", "I need a loan", "I need a loan, urgent", "apply",
   "am I eligible", "documents", "repay", "interest", "company",
   "contact", "contact now", "problem", "status"}

ResponseHistories ==
  {<<>>, <<"hello">>, <<"I need a loan">>, <<"how to apply">>,
   <<"Check my loan status">>, <<"hello", "I need a loan", "how to apply", "xyz">>}

Calls ==
  [fn : {"calculateResponseScore"}, message : Messages, patterns : PatternLists]
  \cup
  [fn : {"selectBestResponse"}, message : Messages, patterns : PatternLists,
   threshold : Thresholds]
  \cup
  [fn : {"generatePatternBasedResponse"}, message : Messages]
  \cup
  [fn : {"identifyConversationTopic"}, history : Histories]
  \cup
  [fn : {"analyzeSemanticContext"}, message : SemanticMessages]
  \cup
  [fn : {"recognizeIntent"}, message : IntentMessages]
  \cup
  [fn : {"determineUserStage"}, history : Histories]
  \cup
  [fn : {"assessUrgency"}, message : UrgencyMessages, sentiment : Sentiments]
  \cup
  [fn : {"findBestMatch"}, message : FuzzyMessages, patterns : PatternLists,
   threshold : {0, FuzzyThreshold}]
  \cup
  [fn : {"findPatternMatch"}, message : FuzzyMessages, patterns : PatternLists]
  \cup
  [fn : {"generateFundobabaResponse"}, message : ResponseMessages,
   history : ResponseHistories]

InitNLP ==
  /\ db = {}
  /\ reqs = [r \in Reqs |-> Idle]
  /\ clock = 0
  /\ nextId = 1
  /\ lastOp = Answer("none", 0)
  /\ call \in Calls
  /\ pc = "input"
  /\ result = None
  /\ NoServiceCalls
  /\ NoLoanRequests
  /\ NoChatInterface

Return(value) ==
  /\ result' = value
  /\ pc' = "done"
  /\ UNCHANGED <<call, sessionVars, serviceVars, loanVars, uiVars>>

CallCalculateResponseScore ==
  /\ pc = "input"
  /\ call.fn = "calculateResponseScore"
  /\ Return(calculateResponseScore(call.message, call.patterns))

CallSelectBestResponse ==
  /\ pc = "input"
  /\ call.fn = "selectBestResponse"
  /\ Return(selectBestResponse(call.message, call.patterns, call.threshold))

CallGeneratePatternBasedResponse ==
  /\ pc = "input"
  /\ call.fn = "generatePatternBasedResponse"
  /\ Return(generatePatternBasedResponse(call.message))

CallIdentifyConversationTopic ==
  /\ pc = "input"
  /\ call.fn = "identifyConversationTopic"
  /\ Return(identifyConversationTopic(call.history))

CallAnalyzeSemanticContext ==
  /\ pc = "input"
  /\ call.fn = "analyzeSemanticContext"
  /\ Return(analyzeSemanticContext(call.message))

CallRecognizeIntent ==
  /\ pc = "input"
  /\ call.fn = "recognizeIntent"
  /\ Return(recognizeIntent(nlpService, call.message))

CallDetermineUserStage ==
  /\ pc = "input"
  /\ call.fn = "determineUserStage"
  /\ Return(determineUserStage(call.history, journeyStages))

CallAssessUrgency ==
  /\ pc = "input"
  /\ call.fn = "assessUrgency"
  /\ Return(assessUrgency(call.message, call.sentiment))

CallFindBestMatch ==
  /\ pc = "input"
  /\ call.fn = "findBestMatch"
  /\ Return(findBestMatch(call.message, call.patterns, call.threshold))

CallFindPatternMatch ==
  /\ pc = "input"
  /\ call.fn = "findPatternMatch"
  /\ Return(findPatternMatch(call.message, call.patterns))

CallGenerateFundobabaResponse ==
  /\ pc = "input"
  /\ call.fn = "generateFundobabaResponse"
  /\ Return(generateFundobabaResponse(call.message, call.history))

NextNLP ==
  \/ CallCalculateResponseScore
  \/ CallSelectBestResponse
  \/ CallGeneratePatternBasedResponse
  \/ CallIdentifyConversationTopic
  \/ CallAnalyzeSemanticContext
  \/ CallRecognizeIntent
  \/ CallDetermineUserStage
  \/ CallAssessUrgency
  \/ CallFindBestMatch
  \/ CallFindPatternMatch
  \/ CallGenerateFundobabaResponse

SpecNLP == InitNLP /\ [][NextNLP]_vars

(***************************************************************************)
(* SpecService: calls on the one NLPService instance of chat.js, in any    *)
(* order.  returned keeps, for every input of understandContext, the       *)
(* contexts returned for it so far.                                        *)
(***************************************************************************)
MaxCalls == 2       \* calls of understandContext per input

ContextInputs ==
  { [message |-> "I need a loan", history |-> <<>>],
    [message |-> "how to apply", history |-> <<"hello", "I need a loan">>],
    [message |-> "Check my loan status",
     history |-> <<"I need a loan", "how to apply", "xyz", "hello">>] }

\* messages of the calls of recognizeIntent made outside understandContext
OtherMessages == {"what is the interest rate", "xyz documents"}

InitService ==
  /\ db = {}
  /\ reqs = [r \in Reqs |-> Idle]
  /\ clock = 0
  /\ nextId = 1
  /\ lastOp = Answer("none", 0)
  /\ call = [fn |-> "none"]
  /\ pc = "off"
  /\ result = None
  /\ service = NewNLPService
  /\ returned = [input \in ContextInputs |-> <<>>]
  /\ NoLoanRequests
  /\ NoChatInterface

\* nlpService.understandContext(userMessage, messageHistory)
CallUnderstandContext(input) ==
  /\ Len(returned[input]) < MaxCalls
  /\ returned' = [returned EXCEPT ![input] =
                    Append(@, understandContext(service, input.message,
                                                input.history))]
  /\ service' = AfterUnderstandContext(service, input.message, input.history)
  /\ UNCHANGED <<sessionVars, nlpVars, loanVars, uiVars>>

\* nlpService.recognizeIntent(userMessage) of generateFundobabaResponse
CallRecognizeIntentAlone(message) ==
  /\ service' = AfterRecognizeIntent(service, message)
  /\ UNCHANGED <<returned, sessionVars, nlpVars, loanVars, uiVars>>

NextService ==
  \/ \E input \in ContextInputs : CallUnderstandContext(input)
  \/ \E message \in OtherMessages : CallRecognizeIntentAlone(message)

SpecService == InitService /\ [][NextService]_vars

(***************************************************************************)
(* SpecLoan: the loan application routes of src/unnamed/part_002 over the  *)
(* LoanApplication collection of backend/models/LoanApplication.js.  A     *)
(* handler that loads a document and saves it later takes two steps, and   *)
(* the steps of different requests interleave.                             *)
(*                                                                         *)
(* A nested object (personalInfo, employmentInfo, financialInfo) is a      *)
(* function from the names of its defined fields to their values.  Of the  *)
(* nested fields the model keeps firstName and lastName, employer, and     *)
(* creditScore.                                                            *)
(***************************************************************************)
LoanTypeEnum == {"personal", "home", "business", "auto", "student"}
LoanStatusEnum ==
  {"draft", "submitted", "under_review", "approved", "rejected", "funded"}
MinAmount == 1000
MaxAmount == 1000000
MinTerm == 1
MaxTerm == 360

AppIds == {"a1", "a2"}

NoFields == [k \in {} |-> ""]

\* a stored draft: every required path has a valid value
Draft(id, u, personalInfo) ==
  [_id |-> id, userId |-> u, applicationNumber |-> Some("LOAN-" \o id),
   status |-> "draft",
   loanType |-> "personal", amount |-> 5000, term |-> 12, purpose |-> "car",
   personalInfo |-> personalInfo,
   employmentInfo |-> NoFields, financialInfo |-> NoFields,
   documents |-> <<>>, approvalDetails |-> None, rejectionDetails |-> None]

\* the collection as the server finds it when it starts
InitialStores ==
  { {Draft("a1", "alice", [firstName |-> "Ann", lastName |-> "Ray"])},
    {Draft("a1", "alice", [firstName |-> "Ann"])},
    {Draft("a2", "bob", [firstName |-> "", lastName |-> "Orr"])} }

\* req.body of PUT /applications/:id
LoanUpdateBodies ==
  { [loanType |-> Some("home"), amount |-> Some(20000), term |-> Some(24),
     purpose |-> Some(" house "), personalInfo |-> None,
     employmentInfo |-> None, financialInfo |-> None],
    [loanType |-> None, amount |-> Some(0), term |-> None, purpose |-> Some(""),
     personalInfo |-> Some([lastName |-> "Lee"]),
     employmentInfo |-> Some([employer |-> "Acme"]),
     financialInfo |-> Some([creditScore |-> 700])],
    [loanType |-> None, amount |-> Some(500), term |-> None, purpose |-> None,
     personalInfo |-> None, employmentInfo |-> None, financialInfo |-> None] }

\* req.body of PUT /admin/applications/:id/status
AdminBodies ==
  { [status |-> "under_review", approvalDetails |-> Some([approvedAmount |-> 4000]),
     rejectionDetails |-> Some([reason |-> "income"])],
    [status |-> "approved", approvalDetails |-> Some([approvedAmount |-> 4000]),
     rejectionDetails |-> Some([reason |-> "income"])],
    [status |-> "rejected", approvalDetails |-> None,
     rejectionDetails |-> Some([reason |-> "income"])],
    [status |-> "bogus", approvalDetails |-> None, rejectionDetails |-> None] }

\* req.body of POST /applications/:id/documents
UploadBodies ==
  { [documentType |-> "paystub", filename |-> "may.pdf"],
    [documentType |-> "selfie", filename |-> "me.png"] }
DocumentTypeEnum == {"id", "paystub", "bank_statement", "tax_return", "other"}
MaxUploads == 1     \* documents stored with one application

\* JavaScript truthiness of an optional number: undefined and 0 are falsy
TruthyNumber(o) == o # None /\ o[1] # 0

\* { ...stored, ...given }
Spread(stored, given) ==
  [k \in DOMAIN stored \cup DOMAIN given |->
     IF k \in DOMAIN given THEN given[k] ELSE stored[k]]

\* !object.field : the field is undefined or ''
Missing(object, field) == field \notin DOMAIN object \/ object[field] = ""

\* LoanApplication.findOne({ _id, userId })
FindApplication(u, id) == {a \in apps : a._id = id /\ a.userId = u}

\* LoanApplication.findById(id)
FindById(id) == {a \in apps : a._id = id}

\* the request last answered: route, user, :id and the HTTP status (0 while
\* the handler awaits application.save())
LoanAnswer(op, u, id, code) == [op |-> op, user |-> u, id |-> id, code |-> code]

\* the paths of the loaded document that the assignments modify, with their
\* new values: an assignment of a value equal to the loaded one modifies
\* nothing
Assigned(loaded, values) ==
  [p \in {q \in DOMAIN values : values[q] # loaded[q]} |-> values[p]]

\* the values the update handler assigns
UpdateAssignments(loaded, body) ==
  LET scalar == {p \in {"loanType", "purpose"} : Truthy(body[p])}
                \cup {p \in {"amount", "term"} : TruthyNumber(body[p])}
      nested == {p \in {"personalInfo", "employmentInfo", "financialInfo"} :
                   body[p] # None}
  IN [p \in scalar \cup nested |->
        IF p \in scalar THEN body[p][1] ELSE Spread(loaded[p], body[p][1])]

\* the schema validators of the paths a route can assign
ValidAssignments(set) ==
  /\ "loanType" \in DOMAIN set => set.loanType \in LoanTypeEnum
  /\ "amount" \in DOMAIN set => set.amount >= MinAmount /\ set.amount <= MaxAmount
  /\ "term" \in DOMAIN set => set.term >= MinTerm /\ set.term <= MaxTerm
  /\ "purpose" \in DOMAIN set => Trim(set.purpose) # ""
  /\ "status" \in DOMAIN set => set.status \in LoanStatusEnum

\* the write of application.save(): $set of the modified paths on the
\* document with the _id (purpose is stored trimmed)
SaveApplication(stored, set) ==
  [p \in DOMAIN stored |->
     IF p \in DOMAIN set
     THEN IF p = "purpose" THEN Trim(set[p]) ELSE set[p]
     ELSE stored[p]]

\* a handler is between its find and its save
Loaded(pcName, u, id, set) == [pc |-> pcName, user |-> u, id |-> id, set |-> set]

InitLoan ==
  /\ db = {}
  /\ reqs = [r \in Reqs |-> Idle]
  /\ clock = 0
  /\ nextId = 1
  /\ lastOp = Answer("none", 0)
  /\ call = [fn |-> "none"]
  /\ pc = "off"
  /\ result = None
  /\ NoServiceCalls
  /\ NoChatInterface
  /\ apps \in InitialStores
  /\ loanReqs = [r \in Reqs |-> Idle]
  /\ loanOp = LoanAnswer("none", "none", "none", 0)

\* req.body of POST /applications
LoanCreateBodies ==
  { [loanType |-> Some("personal"), amount |-> Some(5000), term |-> Some(12),
     purpose |-> Some(" car "), personalInfo |-> None,
     employmentInfo |-> None, financialInfo |-> None],
    [loanType |-> Some("home"), amount |-> Some(20000), term |-> Some(24),
     purpose |-> Some("house"),
     personalInfo |-> Some([firstName |-> "Ann", lastName |-> "Ray"]),
     employmentInfo |-> Some([employer |-> "Acme"]), financialInfo |-> None],
    [loanType |-> Some("home"), amount |-> Some(0), term |-> Some(24),
     purpose |-> Some("house"), personalInfo |-> None,
     employmentInfo |-> None, financialInfo |-> None],
    [loanType |-> Some("auto"), amount |-> Some(5000), term |-> Some(12),
     purpose |-> None, personalInfo |-> None,
     employmentInfo |-> None, financialInfo |-> None],
    [loanType |-> Some("boat"), amount |-> Some(5000), term |-> Some(12),
     purpose |-> Some("boat"), personalInfo |-> None,
     employmentInfo |-> None, financialInfo |-> None] }

\* Date.now().toString() and Math.floor(Math.random() * 1000) at the time
\* of the pre('save') hook
Nows == {"1700000123456"}
Randoms == {7, 42}

\* the _id a created document gets
NewAppIds == {"a3"}

\* !loanType || !amount || !term || !purpose
MissingRequired(body) ==
  \/ ~Truthy(body.loanType)
  \/ ~TruthyNumber(body.amount)
  \/ ~TruthyNumber(body.term)
  \/ ~Truthy(body.purpose)

\* s.slice(-n)
SliceEnd(s, n) == IF Len(s) <= n THEN s ELSE SubSeq(s, Len(s) - n + 1, Len(s))

\* s.padStart(n, '0')
RECURSIVE PadStart(_, _)
PadStart(s, n) == IF Len(s) >= n THEN s ELSE PadStart("0" \o s, n)

\* `LOAN-${timestamp}-${random}`
ApplicationNumber(now, random) ==
  "LOAN-" \o SliceEnd(now, 6) \o "-" \o PadStart(NumberToString(random), 3)

\* new LoanApplication({ userId, loanType, ... }): status takes its default,
\* an undefined nested object has no fields, applicationNumber is undefined
NewApplication(id, u, body) ==
  LET nested(o) == IF o = None THEN NoFields ELSE o[1]
  IN [_id |-> id, userId |-> u, applicationNumber |-> None, status |-> "draft",
      loanType |-> body.loanType[1], amount |-> body.amount[1],
      term |-> body.term[1], purpose |-> body.purpose[1],
      personalInfo |-> nested(body.personalInfo),
      employmentInfo |-> nested(body.employmentInfo),
      financialInfo |-> nested(body.financialInfo),
      documents |-> <<>>, approvalDetails |-> None, rejectionDetails |-> None]

\* validation of a new document: the required paths and the validators
ValidApplication(doc) ==
  /\ doc.applicationNumber # None
  /\ ValidAssignments(doc)

\* loanApplicationSchema.pre('save')
GenerateApplicationNumber(doc, isNew, now, random) ==
  IF isNew /\ ~Truthy(doc.applicationNumber)
  THEN [doc EXCEPT !.applicationNumber = Some(ApplicationNumber(now, random))]
  ELSE doc

\* the variant of save() in which the pre('save') hook of the schema ran
\* before validation
HookThenValidate(doc, now, random) ==
  LET hooked == GenerateApplicationNumber(doc, TRUE, now, random)
  IN IF ValidApplication(hooked) THEN Some(hooked) ELSE None

\* save() of a new document: Mongoose validates the document first and runs
\* the pre('save') hooks of the schema only when validation has passed;
\* None is the error passed to the caller
ValidateThenHook(doc, now, random) ==
  IF ValidApplication(doc)
  THEN Some(GenerateApplicationNumber(doc, TRUE, now, random))
  ELSE None

\* the unique index on applicationNumber
DuplicateNumber(doc) ==
  \E a \in apps : a.applicationNumber = doc.applicationNumber

\* POST /applications
LoanCreate(u, body, now, random) ==
  /\ IF MissingRequired(body)
     THEN /\ loanOp' = LoanAnswer("create", u, "none", 400)
          /\ UNCHANGED apps
     ELSE \E id \in NewAppIds \ {a._id : a \in apps} :
          LET saved == ValidateThenHook(NewApplication(id, u, body), now, random)
          IN IF saved = None \/ DuplicateNumber(saved[1])
             THEN /\ loanOp' = LoanAnswer("create", u, "none", 500)
                  /\ UNCHANGED apps
             ELSE /\ apps' = apps \cup
                               {[saved[1] EXCEPT !.purpose = Trim(@)]}
                  /\ loanOp' = LoanAnswer("create", u, "none", 201)
  /\ UNCHANGED <<loanReqs, sessionVars, nlpVars, serviceVars, uiVars>>

\* A request slot is free.  Two requests are explored in flight together
\* only when the second starts while the collection is still as the server
\* found it; afterwards requests are handled one after the other.
CanStartLoan(r) ==
  /\ loanReqs[r].pc = "idle"
  /\ (\A other \in Reqs : loanReqs[other].pc = "idle") \/ apps \in InitialStores

\* PUT /applications/:id up to the call of application.save()
LoanUpdateFind(r, u, id, body) ==
  /\ CanStartLoan(r)
  /\ IF FindApplication(u, id) = {}
     THEN /\ loanOp' = LoanAnswer("update", u, id, 404)
          /\ UNCHANGED loanReqs
     ELSE \E a \in FindApplication(u, id) :
          IF a.status # "draft"
          THEN /\ loanOp' = LoanAnswer("update", u, id, 400)
               /\ UNCHANGED loanReqs
          ELSE /\ loanReqs' = [loanReqs EXCEPT ![r] =
                                 Loaded("updateAssigned", u, id,
                                        Assigned(a, UpdateAssignments(a, body)))]
               /\ loanOp' = LoanAnswer("update", u, id, 0)
  /\ UNCHANGED <<apps, sessionVars, nlpVars, serviceVars, uiVars>>

\* await application.save() and the answer: validation, then the write
SaveLoaded(r, op) ==
  /\ LET q == loanReqs[r]
     IN IF ~ValidAssignments(q.set)
        THEN /\ loanOp' = LoanAnswer(op, q.user, q.id, 500)
             /\ UNCHANGED apps
        ELSE /\ apps' = {IF a._id = q.id THEN SaveApplication(a, q.set) ELSE a :
                           a \in apps}
             /\ loanOp' = LoanAnswer(op, q.user, q.id, 200)
  /\ loanReqs' = [loanReqs EXCEPT ![r] = Idle]
  /\ UNCHANGED <<sessionVars, nlpVars, serviceVars, uiVars>>

LoanUpdateSave(r) ==
  /\ loanReqs[r].pc = "updateAssigned"
  /\ SaveLoaded(r, "update")

\* POST /applications/:id/submit up to the call of application.save()
LoanSubmitFind(r, u, id) ==
  /\ CanStartLoan(r)
  /\ IF FindApplication(u, id) = {}
     THEN /\ loanOp' = LoanAnswer("submit", u, id, 404)
          /\ UNCHANGED loanReqs
     ELSE \E a \in FindApplication(u, id) :
          IF \/ a.status # "draft"
             \/ Missing(a.personalInfo, "firstName")
             \/ Missing(a.personalInfo, "lastName")
          THEN /\ loanOp' = LoanAnswer("submit", u, id, 400)
               /\ UNCHANGED loanReqs
          ELSE /\ loanReqs' = [loanReqs EXCEPT ![r] =
                                 Loaded("submitAssigned", u, id,
                                        Assigned(a, [status |-> "submitted"]))]
               /\ loanOp' = LoanAnswer("submit", u, id, 0)
  /\ UNCHANGED <<apps, sessionVars, nlpVars, serviceVars, uiVars>>

LoanSubmitSave(r) ==
  /\ loanReqs[r].pc = "submitAssigned"
  /\ SaveLoaded(r, "submit")

\* the values the admin status handler assigns
AdminAssignments(body) ==
  LET paths == {"status"}
                 \cup (IF body.status = "approved" /\ body.approvalDetails # None
                       THEN {"approvalDetails"} ELSE {})
                 \cup (IF body.status = "rejected" /\ body.rejectionDetails # None
                       THEN {"rejectionDetails"} ELSE {})
  IN [p \in paths |->
        CASE p = "status" -> body.status
          [] p = "approvalDetails" ->
               Some(Spread(body.approvalDetails[1], [approvedBy |-> "admin"]))
          [] p = "rejectionDetails" ->
               Some(Spread(body.rejectionDetails[1], [rejectedBy |-> "admin"]))]

\* PUT /admin/applications/:id/status up to the call of application.save()
AdminStatusFind(r, id, body) ==
  /\ CanStartLoan(r)
  /\ IF FindById(id) = {}
     THEN /\ loanOp' = LoanAnswer("status", "admin", id, 404)
          /\ UNCHANGED loanReqs
     ELSE \E a \in FindById(id) :
          /\ loanReqs' = [loanReqs EXCEPT ![r] =
                            Loaded("statusAssigned", "admin", id,
                                   Assigned(a, AdminAssignments(body)))]
          /\ loanOp' = LoanAnswer("status", "admin", id, 0)
  /\ UNCHANGED <<apps, sessionVars, nlpVars, serviceVars, uiVars>>

AdminStatusSave(r) ==
  /\ loanReqs[r].pc = "statusAssigned"
  /\ SaveLoaded(r, "status")

\* GET /applications/:id
LoanGet(u, id) ==
  /\ loanOp' = LoanAnswer("get", u, id,
                          IF FindApplication(u, id) = {} THEN 404 ELSE 200)
  /\ UNCHANGED <<apps, loanReqs, sessionVars, nlpVars, serviceVars, uiVars>>

\* POST /applications/:id/documents up to the call of application.save()
UploadFind(r, u, id, body) ==
  /\ CanStartLoan(r)
  /\ IF FindApplication(u, id) = {}
     THEN /\ loanOp' = LoanAnswer("upload", u, id, 404)
          /\ UNCHANGED loanReqs
     ELSE \E a \in FindApplication(u, id) :
          /\ Len(a.documents) < MaxUploads
          /\ loanReqs' = [loanReqs EXCEPT ![r] =
                            [pc |-> "uploadPushed", user |-> u, id |-> id,
                             pushed |-> [type |-> body.documentType,
                                         filename |-> body.filename]]]
          /\ loanOp' = LoanAnswer("upload", u, id, 0)
  /\ UNCHANGED <<apps, sessionVars, nlpVars, serviceVars, uiVars>>

\* await application.save(): validation of the pushed subdocument, then the
\* $push onto the stored array
UploadSave(r) ==
  /\ loanReqs[r].pc = "uploadPushed"
  /\ LET q == loanReqs[r]
     IN IF q.pushed.type \notin DocumentTypeEnum
        THEN /\ loanOp' = LoanAnswer("upload", q.user, q.id, 500)
             /\ UNCHANGED apps
        ELSE /\ apps' = {IF a._id = q.id
                         THEN [a EXCEPT !.documents = Append(@, q.pushed)]
                         ELSE a : a \in apps}
             /\ loanOp' = LoanAnswer("upload", q.user, q.id, 200)
  /\ loanReqs' = [loanReqs EXCEPT ![r] = Idle]
  /\ UNCHANGED <<sessionVars, nlpVars, serviceVars, uiVars>>

NextLoan ==
  \/ \E u \in Users, b \in LoanCreateBodies, now \in Nows, random \in Randoms :
        LoanCreate(u, b, now, random)
  \/ \E r \in Reqs, u \in Users, id \in AppIds, b \in LoanUpdateBodies :
        LoanUpdateFind(r, u, id, b)
  \/ \E r \in Reqs : LoanUpdateSave(r)
  \/ \E r \in Reqs, u \in Users, id \in AppIds : LoanSubmitFind(r, u, id)
  \/ \E r \in Reqs : LoanSubmitSave(r)
  \/ \E r \in Reqs, id \in AppIds, b \in AdminBodies :
        AdminStatusFind(r, id, b)
  \/ \E r \in Reqs : AdminStatusSave(r)
  \/ \E u \in Users, id \in AppIds : LoanGet(u, id)
  \/ \E r \in Reqs, u \in Users, id \in AppIds, b \in UploadBodies :
        UploadFind(r, u, id, b)
  \/ \E r \in Reqs : UploadSave(r)

SpecLoan == InitLoan /\ [][NextLoan]_vars

(***************************************************************************)
(* SpecUI: the ChatInterface component of frontend/src/components/chat/    *)
(* ChatInterface.js.  ui is the React state of the component, pending the  *)
(* requests it awaits, server the sessions stored on the server (session   *)
(* id to stored messages).  A handler takes one step up to its await and   *)
(* one step when the response arrives; the server handles the request in   *)
(* the step in which its response arrives.                                 *)
(*                                                                         *)
(* A message carries the number of the send that made it (key, 0 for the   *)
(* greeting), the id of the session it was sent in, and whether it is the  *)
(* object sendMessage created itself (local): objects parsed from a        *)
(* response are never identical to that one.                               *)
(***************************************************************************)
MaxSends == 2       \* calls of sendMessage that pass its guard
MaxPending == 2     \* requests awaited together

FirstSession == "s1"        \* the session stored when the component mounts
CreatedSession == "s2"      \* the session POST /sessions creates

\* what the user types into the textarea
Typed == {" ", "hi"}

UIGreeting(sid) ==
  [key |-> 0, sender |-> "assistant", content |-> "Hello!", session |-> sid,
   local |-> FALSE]

\* the session object of a response
SessionObject(sid) == [sessionId |-> sid, messages |-> server[sid]]

\* GET /sessions: the stored sessions
StoredSessions ==
  SelectSeq(<<CreatedSession, FirstSession>>, LAMBDA sid : sid \in DOMAIN server)

SessionListed(sid) == \E i \in 1..Len(ui.sessions) : ui.sessions[i].sessionId = sid

\* while loading without a current session only the spinner is rendered
Rendered == ~ui.crashed /\ ~(ui.loading /\ ui.currentSession = None)

CanAwait == Rendered /\ Cardinality(pending) < MaxPending

\* the component after mounting: the effect has called loadSessions
InitUI ==
  /\ db = {}
  /\ reqs = [r \in Reqs |-> Idle]
  /\ clock = 0
  /\ nextId = 1
  /\ lastOp = Answer("none", 0)
  /\ call = [fn |-> "none"]
  /\ pc = "off"
  /\ result = None
  /\ NoServiceCalls
  /\ NoLoanRequests
  /\ ui = [sessions |-> <<>>, currentSession |-> None, messages |-> <<>>,
           newMessage |-> "", loading |-> TRUE, sending |-> FALSE,
           crashed |-> FALSE]
  /\ pending = {[op |-> "loadSessions"]}
  /\ server = [sid \in {FirstSession} |-> <<UIGreeting(sid)>>]
  /\ sends = 0

NotUI == UNCHANGED <<sessionVars, nlpVars, serviceVars, loanVars>>

\* loadSessions after its await; currentSession is null in its closure
LoadSessionsDone(ok) ==
  /\ [op |-> "loadSessions"] \in pending
  /\ IF ok
     THEN /\ ui' = [ui EXCEPT
                      !.sessions = [i \in 1..Len(StoredSessions) |->
                                      SessionObject(StoredSessions[i])],
                      !.loading = FALSE]
          /\ pending' = (pending \ {[op |-> "loadSessions"]})
                          \cup (IF Len(StoredSessions) > 0
                                THEN {[op |-> "load", sid |-> StoredSessions[1]]}
                                ELSE {})
     ELSE /\ ui' = [ui EXCEPT !.loading = FALSE]
          /\ pending' = pending \ {[op |-> "loadSessions"]}
  /\ UNCHANGED <<server, sends>>
  /\ NotUI

\* a click on a session of the list: loadSession up to its await
ClickSession(sid) ==
  /\ CanAwait
  /\ SessionListed(sid)
  /\ ui' = [ui EXCEPT !.loading = TRUE]
  /\ pending' = pending \cup {[op |-> "load", sid |-> sid]}
  /\ UNCHANGED <<server, sends>>
  /\ NotUI

\* loadSession after its await
LoadSessionDone(req, ok) ==
  /\ req \in pending
  /\ req.op = "load"
  /\ ~ui.crashed
  /\ IF ok /\ req.sid \in DOMAIN server
     THEN ui' = [ui EXCEPT !.currentSession = Some(SessionObject(req.sid)),
                           !.messages = server[req.sid],
                           !.loading = FALSE]
     ELSE ui' = [ui EXCEPT !.loading = FALSE]
  /\ pending' = pending \ {req}
  /\ UNCHANGED <<server, sends>>
  /\ NotUI

\* a click on a new-chat button: createNewSession up to its await.  The
\* button of the sidebar is disabled while loading; the one of the empty
\* list and the one of the welcome pane are not.
ClickNewSession ==
  /\ CanAwait
  /\ ~ui.loading \/ Len(ui.sessions) = 0 \/ ui.currentSession = None
  /\ CreatedSession \notin DOMAIN server
  /\ \A req \in pending : req.op # "create"
  /\ ui' = [ui EXCEPT !.loading = TRUE]
  /\ pending' = pending \cup {[op |-> "create", sessions |-> ui.sessions]}
  /\ UNCHANGED <<server, sends>>
  /\ NotUI

\* createNewSession after its await; sessions is the list of its closure
CreateSessionDone(req, ok) ==
  /\ req \in pending
  /\ req.op = "create"
  /\ ~ui.crashed
  /\ IF ok
     THEN LET newSession == [sessionId |-> CreatedSession,
                             messages |-> <<UIGreeting(CreatedSession)>>]
          IN /\ server' = [sid \in DOMAIN server \cup {CreatedSession} |->
                             IF sid = CreatedSession THEN newSession.messages
                             ELSE server[sid]]
             /\ ui' = [ui EXCEPT !.sessions = <<newSession>> \o req.sessions,
                                 !.currentSession = Some(newSession),
                                 !.messages = newSession.messages,
                                 !.loading = FALSE]
     ELSE /\ ui' = [ui EXCEPT !.loading = FALSE]
          /\ UNCHANGED server
  /\ pending' = pending \ {req}
  /\ UNCHANGED sends
  /\ NotUI

\* onChange of the textarea, rendered while there is a current session
\* (typing is explored while another message can still be sent)
TypeMessage(text) ==
  /\ ~ui.crashed
  /\ sends < MaxSends
  /\ ui.currentSession # None
  /\ ui.newMessage # text
  /\ ui' = [ui EXCEPT !.newMessage = text]
  /\ UNCHANGED <<pending, server, sends>>
  /\ NotUI

\* the object sendMessage creates
UserMessage(n, content, sid) ==
  [key |-> n, sender |-> "user", content |-> content, session |-> sid,
   local |-> TRUE]

\* sendMessage up to its await; before is the list displayed at the call,
\* which only the properties read
sendMessage ==
  IF Trim(ui.newMessage) = "" \/ ui.currentSession = None
  THEN UNCHANGED <<ui, pending, sends>>
  ELSE LET userMessage == UserMessage(sends + 1, ui.newMessage,
                                      ui.currentSession[1].sessionId)
       IN /\ sends < MaxSends
          /\ Cardinality(pending) < MaxPending
          /\ ui' = [ui EXCEPT !.messages = Append(@, userMessage),
                              !.newMessage = "",
                              !.sending = TRUE]
          /\ pending' = pending \cup
                          {[op |-> "send", sid |-> userMessage.session,
                            userMessage |-> userMessage,
                            before |-> ui.messages]}
          /\ sends' = sends + 1

\* the button is disabled while the text is blank or a send is awaited (the
\* variant is disabled only while the text is blank)
DisabledWhileBlank == Trim(ui.newMessage) = ""

SendDisabled == Trim(ui.newMessage) = "" \/ ui.sending

\* a click on the send button
ClickSend ==
  /\ ~ui.crashed
  /\ ui.currentSession # None
  /\ ~SendDisabled
  /\ sendMessage
  /\ UNCHANGED server
  /\ NotUI

\* handleKeyPress with Enter and no Shift, in the textarea
PressEnter ==
  /\ ~ui.crashed
  /\ ui.currentSession # None
  /\ sendMessage
  /\ UNCHANGED server
  /\ NotUI

\* the messages POST /sessions/:sessionId/messages stores and returns
StoredPair(userMessage) ==
  << [userMessage EXCEPT !.content = Trim(@), !.local = FALSE],
     [key |-> userMessage.key, sender |-> "assistant", content |-> "reply",
      session |-> userMessage.session, local |-> FALSE] >>

\* prev.filter(msg => msg !== userMessage) (the variant compares contents)
FilterByContent(prev, userMessage) ==
  SelectSeq(prev, LAMBDA msg : msg.content # userMessage.content)

FilterMessage(prev, userMessage) ==
  SelectSeq(prev, LAMBDA msg : msg # userMessage)

\* the catch and finally blocks of sendMessage
SendFailed(state, userMessage) ==
  [state EXCEPT !.messages = FilterMessage(@, userMessage), !.sending = FALSE]

\* sendMessage after its await.  The updater of setCurrentSession reads
\* prev.messages; when prev is null it throws, either while the component
\* renders (the component is gone) or inside the try block (the catch
\* block runs).
SendMessageDone(req, ok, thrown) ==
  /\ req \in pending
  /\ req.op = "send"
  /\ ~ui.crashed
  /\ IF ok /\ req.sid \in DOMAIN server
     THEN LET stored == StoredPair(req.userMessage)
              appended == [ui EXCEPT !.messages = Append(@, stored[2])]
          IN /\ server' = [server EXCEPT ![req.sid] = @ \o stored]
             /\ IF ui.currentSession # None
                THEN ui' = [appended EXCEPT
                              !.currentSession =
                                 Some([@[1] EXCEPT !.messages =
                                         @ \o <<req.userMessage, stored[2]>>]),
                              !.sending = FALSE]
                ELSE IF thrown = "render"
                THEN ui' = [appended EXCEPT !.sending = FALSE, !.crashed = TRUE]
                ELSE ui' = SendFailed(appended, req.userMessage)
     ELSE /\ ui' = SendFailed(ui, req.userMessage)
          /\ UNCHANGED server
  /\ pending' = pending \ {req}
  /\ UNCHANGED sends
  /\ NotUI

\* a click on the delete button of a session: deleteSession up to its await
ClickDelete(sid) ==
  /\ CanAwait
  /\ SessionListed(sid)
  /\ pending' = pending \cup
                  {[op |-> "delete", sid |-> sid,
                    current |-> IF ui.currentSession = None THEN None
                                ELSE Some(ui.currentSession[1].sessionId)]}
  /\ UNCHANGED <<ui, server, sends>>
  /\ NotUI

\* deleteSession after its await; currentSession is that of its closure
DeleteSessionDone(req, ok) ==
  /\ req \in pending
  /\ req.op = "delete"
  /\ ~ui.crashed
  /\ IF ok /\ req.sid \in DOMAIN server
     THEN /\ server' = [sid \in DOMAIN server \ {req.sid} |-> server[sid]]
          /\ LET listed == [ui EXCEPT !.sessions =
                              SelectSeq(@, LAMBDA session :
                                             session.sessionId # req.sid)]
             IN ui' = IF req.current = Some(req.sid)
                      THEN [listed EXCEPT !.currentSession = None,
                                          !.messages = <<>>]
                      ELSE listed
     ELSE UNCHANGED <<ui, server>>
  /\ pending' = pending \ {req}
  /\ UNCHANGED sends
  /\ NotUI

UISessionIds == {FirstSession, CreatedSession}

NextUI ==
  \/ \E ok \in BOOLEAN : LoadSessionsDone(ok)
  \/ \E sid \in UISessionIds : ClickSession(sid)
  \/ \E req \in pending, ok \in BOOLEAN : LoadSessionDone(req, ok)
  \/ ClickNewSession
  \/ \E req \in pending, ok \in BOOLEAN : CreateSessionDone(req, ok)
  \/ \E text \in Typed : TypeMessage(text)
  \/ ClickSend
  \/ PressEnter
  \/ \E req \in pending, ok \in BOOLEAN, thrown \in {"render", "try"} :
        SendMessageDone(req, ok, thrown)
  \/ \E sid \in UISessionIds : ClickDelete(sid)
  \/ \E req \in pending, ok \in BOOLEAN : DeleteSessionDone(req, ok)

SpecUI == InitUI /\ [][NextUI]_vars

(***************************************************************************)
(* SpecOwner: the routes that are scoped to the requesting user, those of  *)
(* the chat sessions and those of the loan applications.  The two routers  *)
(* share no state: a behaviour is one of Spec or one of SpecLoan, told     *)
(* apart by the loan collection, which is empty in the former only.        *)
(***************************************************************************)
InitOwner == Init \/ InitLoan

NextOwner ==
  \/ apps = {} /\ Next
  \/ apps # {} /\ NextLoan

SpecOwner == InitOwner /\ [][NextOwner]_vars

(***************************************************************************)
(* Claims about the response selector and the conversation topic, checked  *)
(* under SpecNLP.                                                          *)
(***************************************************************************)
Returned(fn) == pc = "done" /\ call.fn = fn

\* no entry of the list has a greater normalized score than entry i
IsTop(entries, i) ==
  \A j \in 1..Len(entries) :
    entries[i].score.num * entries[j].score.den
      >= entries[j].score.num * entries[i].score.den

TablePatterns == [i \in 1..Len(responsePatterns) |-> responsePatterns[i].pattern]

\* C5: selectBestResponse returns an object exactly when the pattern list is
\* non-empty and the greatest normalized score is at least the threshold;
\* the object then names a pattern with that greatest score, and otherwise
\* the result is null.  When no pattern of the response table reaches the
\* threshold of generatePatternBasedResponse, the response is the fallback.
SelectReturnsTopIffThresholdReached ==
  /\ Returned("selectBestResponse") =>
       LET entries == PushedScores(call.message, call.patterns)
           n == Len(call.patterns)
           reached(i) == entries[i].score.num >= call.threshold * entries[i].score.den
       IN /\ (result # None) <=>
               (n > 0 /\ \E i \in 1..n : IsTop(entries, i) /\ reached(i))
          /\ result # None =>
               \E i \in 1..n :
                 /\ IsTop(entries, i)
                 /\ result[1].pattern = call.patterns[i]
                 /\ result[1].score = entries[i].score
  /\ Returned("generatePatternBasedResponse") =>
       LET entries == PushedScores(call.message, TablePatterns)
       IN (\A i \in 1..Len(entries) :
             entries[i].score.num < PatternThreshold * entries[i].score.den)
          => result = FallbackResponse

\* a call returned a pattern whose score is exactly the (positive) threshold
ThresholdMetExactly ==
  /\ Returned("selectBestResponse")
  /\ call.threshold > 0
  /\ result # None
  /\ result[1].score.num = call.threshold * result[1].score.den

IsExact(message, pattern) == Includes(toLowerCase(message), toLowerCase(pattern))

\* C6: a pattern that occurs in the message as a case-insensitive substring
\* has a normalized score of at least the exact-match value and is ranked
\* above every pattern that does not, so selectBestResponse does not return
\* a pattern without an exact match when some pattern has one.
ExactMatchOutranks ==
  /\ Returned("calculateResponseScore") =>
       \A i \in 1..Len(result) :
         IsExact(call.message, result[i].pattern) =>
           /\ result[i].score.num >= ExactMatchScore * result[i].score.den
           /\ \A j \in 1..Len(result) :
                ~IsExact(call.message, result[j].pattern) => i < j
  /\ (Returned("selectBestResponse") /\ result # None) =>
       ((\E i \in 1..Len(call.patterns) : IsExact(call.message, call.patterns[i]))
        => IsExact(call.message, result[1].pattern))

\* a non-empty word of the message and one of a pattern are equal or one is
\* a substring of the other
SharesWord(message, patterns) ==
  \E i \in 1..Len(patterns) :
    LET messageWords == Split(toLowerCase(message))
        patternWords == Split(toLowerCase(patterns[i]))
    IN \E j \in 1..Len(messageWords), k \in 1..Len(patternWords) :
         /\ messageWords[j] # ""
         /\ patternWords[k] # ""
         /\ \/ Includes(messageWords[j], patternWords[k])
            \/ Includes(patternWords[k], messageWords[j])

\* C7: for an empty message, and for a message that shares no word or
\* sub-word with any pattern, selectBestResponse returns null at every
\* threshold > 0 and generatePatternBasedResponse returns the fallback text.
NoSharedWordGivesNull ==
  /\ (Returned("selectBestResponse") /\ call.threshold > 0
      /\ ~SharesWord(call.message, call.patterns)) => result = None
  /\ (Returned("generatePatternBasedResponse")
      /\ ~SharesWord(call.message, TablePatterns)) => result = FallbackResponse

\* C8: entries of equal normalized score stand in the ranked list in their
\* declaration order, and selectBestResponse returns the first-declared of
\* the patterns that share the greatest score.
TiesKeepDeclarationOrder ==
  /\ Returned("calculateResponseScore") =>
       /\ Len(result) = Len(call.patterns)
       /\ \A i \in 1..Len(result), j \in 1..Len(result) :
            (i < j /\ result[i].score = result[j].score)
              => result[i].index < result[j].index
  /\ (Returned("selectBestResponse") /\ result # None) =>
       LET entries == PushedScores(call.message, call.patterns)
           first == CHOOSE i \in 1..Len(entries) :
                      /\ IsTop(entries, i)
                      /\ \A j \in 1..(i - 1) : ~IsTop(entries, j)
       IN /\ result[1].pattern = call.patterns[first]
          /\ result[1].allScores[1].index = first - 1

\* two different patterns of equal positive score head a ranked list
TiedPatternsRanked ==
  /\ Returned("calculateResponseScore")
  /\ Len(result) >= 2
  /\ result[1].score = result[2].score
  /\ result[1].score.num > 0
  /\ result[1].pattern # result[2].pattern

\* the table weight of a word: important, else common, else the default
TableWeight(word) ==
  IF importantKeywords(word) # 0 THEN importantKeywords(word)
  ELSE IF commonWords(word) # 0 THEN commonWords(word)
  ELSE DefaultWordScore

\* the total and the number of contributing matches as C9 states them: the
\* exact match, each pattern word equal to a message word with its weight
\* once, each pattern word that only partially matches with 70% of it
StatedScore(message, pattern) ==
  LET messageLower == toLowerCase(message)
      messageWords == Split(messageLower)
      patternWords == Split(toLowerCase(pattern))
      exact == IsExact(message, pattern)
      full(k) == ArrayIncludes(messageWords, patternWords[k])
      partial(k) ==
        /\ ~full(k)
        /\ \E j \in 1..Len(messageWords) :
             \/ Includes(messageWords[j], patternWords[k])
             \/ Includes(patternWords[k], messageWords[j])
      contributions ==
        [k \in 1..Len(patternWords) |->
           IF full(k) THEN TableWeight(patternWords[k])
           ELSE IF partial(k)
                THEN (TableWeight(patternWords[k]) * PartialPercent) \div 100
                ELSE 0]
      bonus == IF \E q \in QuestionWords : Includes(messageLower, q)
               THEN QuestionBonus ELSE 0
  IN [total |-> (IF exact THEN ExactMatchScore ELSE 0) + SumSeq(contributions)
                + bonus,
      matches |-> (IF exact THEN 1 ELSE 0)
                  + Cardinality({k \in 1..Len(patternWords) : full(k) \/ partial(k)})]

\* C9: the normalized score of every entry is its totalScore divided by the
\* number of matches that contributed to it (totalScore itself when there is
\* none), where a fully matching word contributes its table weight once and
\* an only partially matching word 70% of that weight.
ScoreIsTotalOverContributions ==
  Returned("calculateResponseScore") =>
    \A i \in 1..Len(result) :
      LET stated == StatedScore(call.message, result[i].pattern)
      IN /\ result[i].totalScore = stated.total
         /\ result[i].score =
              IF stated.matches > 0
              THEN Quotient(result[i].totalScore, stated.matches)
              ELSE Quotient(result[i].totalScore, 1)

\* how often analyzeSemanticContext assigns the category to the messages
TimesAssigned(messages, category) ==
  Cardinality({n \in 1..Len(messages) :
                 analyzeSemanticContext(messages[n]).category = Some(category)})

\* C10: for a non-empty history in which some message has a category, the
\* primary topic names the category assigned most often to the last 5
\* messages, the first-declared of the table among those assigned equally
\* often.  (The code returns an entry [name, count]; its name is compared.)
PrimaryIsMostFrequentCategory ==
  (Returned("identifyConversationTopic") /\ Len(call.history) > 0) =>
    LET recent == Slice(call.history)
        times(k) == TimesAssigned(recent, semanticCategories[k].category)
        n == Len(semanticCategories)
    IN (\E k \in 1..n : times(k) > 0) =>
         \E k \in 1..n :
           /\ \A j \in 1..n : times(j) <= times(k)
           /\ \A j \in 1..(k - 1) : times(j) < times(k)
           /\ result.primary[1] = semanticCategories[k].category

(***************************************************************************)
(* Claims about the semantic analysis, checked under SpecNLP.              *)
(***************************************************************************)
\* C11: the relatedTopics that analyzeSemanticContext returns are the
\* adjacency-table entry of the category it returns as the winner, and are
\* empty when that category has no entry or is null.
RelatedTopicsOfWinningCategory ==
  Returned("analyzeSemanticContext") =>
    result.relatedTopics =
      IF result.category = None THEN <<>>
      ELSE relatedTopics(result.category[1])

\* the confidence C12 states for category k: the keywords of its keyword set
\* that occur in the lower-cased message, over the size of that set
StatedConfidence(message, k) ==
  LET keywords == semanticCategories[k].keywords
      keywordSet == {keywords[i] : i \in 1..Len(keywords)}
  IN Quotient(Cardinality({w \in keywordSet : Includes(toLowerCase(message), w)}),
              Cardinality(keywordSet))

\* C12: analyzeSemanticContext returns the category whose confidence
\* (keywords occurring in the lower-cased message over the size of the
\* keyword set) is highest, the first-declared of those tied for the
\* highest, with that confidence; it returns a null category with
\* confidence 0 when no keyword of any category occurs.  For "I want to
\* apply for a loan" the winner is the one of application_process and
\* loan_inquiry with the higher confidence.
WinnerHasHighestKeywordOverlap ==
  Returned("analyzeSemanticContext") =>
    LET n == Len(semanticCategories)
        stated == [k \in 1..n |-> StatedConfidence(call.message, k)] \o <<>>
        top(k) == \A j \in 1..n : ScoreGE(stated[k], stated[j])
    IN /\ IF \A k \in 1..n : stated[k].num = 0
          THEN result.category = None /\ result.confidence = Quotient(0, 1)
          ELSE \E k \in 1..n :
                 /\ top(k)
                 /\ \A j \in 1..(k - 1) : ~top(j)
                 /\ result.category = Some(semanticCategories[k].category)
                 /\ result.confidence = stated[k]
       /\ call.message = "I want to apply for a loan" =>
            result.category =
              IF ScoreGE(stated[1], stated[2])
              THEN Some("loan_inquiry") ELSE Some("application_process")

(***************************************************************************)
(* Claims about the intent recognition, checked under SpecNLP.             *)
(***************************************************************************)
RECURSIVE SumOver(_, _)
SumOver(f, S) ==
  IF S = {} THEN 0
  ELSE LET d == CHOOSE e \in S : TRUE IN f[d] + SumOver(f, S \ {d})

\* the aggregate score of the k-th declared intent: the measures of its
\* example phrases against the message, summed
AggregateScore(measures, k) ==
  SumOver(measures, {d \in 1..Len(documents) :
                       documents[d].key = intentTrainingData[k].intent})

\* C13: recognizeIntent returns the intent whose aggregate score over its
\* example phrases is highest, the first-declared of intentTrainingData
\* among those that share the highest score, with that score as confidence;
\* when no intent has a score above zero it returns 'general_inquiry' with
\* confidence 0.
HighestAggregateIntentWins ==
  Returned("recognizeIntent") =>
    LET measures == tfidfs(nlpService.tfidf, call.message)
        n == Len(intentTrainingData)
        aggregate == [k \in 1..n |-> AggregateScore(measures, k)] \o <<>>
    IN IF \A k \in 1..n : aggregate[k] <= 0
       THEN result.intent = "general_inquiry" /\ result.confidence = 0
       ELSE \E k \in 1..n :
              /\ \A j \in 1..n : aggregate[j] <= aggregate[k]
              /\ \A j \in 1..(k - 1) : aggregate[j] < aggregate[k]
              /\ result.intent = intentTrainingData[k].intent
              /\ result.confidence = aggregate[k]

\* two intents share the highest, positive score of a call
IntentsTiedForBest ==
  /\ Returned("recognizeIntent")
  /\ result.confidence > 0
  /\ \E i, j \in 1..Len(result.scores) :
       /\ i # j
       /\ result.scores[i][2] = result.confidence
       /\ result.scores[j][2] = result.confidence

(***************************************************************************)
(* Claims about the user journey and the urgency, checked under SpecNLP.   *)
(***************************************************************************)
\* C14: determineUserStage returns a journey stage whose keyword-overlap
\* score over the last 3 history messages is maximal among the six stages,
\* and of the stages that share the maximal score (all of them when every
\* score is 0) it returns the one that comes first in the table.
StageIsFirstOfMaximal ==
  Returned("determineUserStage") =>
    LET recent == SliceLast(call.history, StageWindow)
        n == Len(journeyStages)
        score == [k \in 1..n |-> StageScore(recent, journeyStages[k].keywords)] \o <<>>
    IN \E k \in 1..n :
         /\ \A j \in 1..n : score[j] <= score[k]
         /\ \A j \in 1..(k - 1) : score[j] < score[k]
         /\ result = journeyStages[k].stage

\* C15: assessUrgency returns score = min(1, number of urgency keywords
\* present, plus 0.5 if the sentiment score is below -0.3), so the score
\* lies in [0,1], and the level agrees with the returned score: 'high'
\* exactly when score > 0.7, 'medium' exactly when 0.3 < score <= 0.7, and
\* 'low' otherwise.
UrgencyScoreClippedAndLevelAgrees ==
  Returned("assessUrgency") =>
    LET present == {w \in {urgentKeywords[k] : k \in 1..Len(urgentKeywords)} :
                      Includes(toLowerCase(call.message), w)}
        sum == Cardinality(present) * 100
               + (IF call.sentiment.score.num * 10 < (0 - 3) * call.sentiment.score.den
                  THEN 50 ELSE 0)
    IN /\ result.score = IF sum < 100 THEN sum ELSE 100
       /\ result.score >= 0
       /\ result.score <= 100
       /\ result.level = "high" <=> result.score > 70
       /\ result.level = "medium" <=> (30 < result.score /\ result.score <= 70)
       /\ result.level = "low" <=> result.score <= 30

\* a call whose sum of keywords and sentiment exceeded 1 and was clipped
UrgencyClipped ==
  /\ Returned("assessUrgency")
  /\ IsNegative(call.sentiment.score)
  /\ Includes(toLowerCase(call.message), "urgent")
  /\ result.score = UrgencyCap
  /\ result.level = "high"

(***************************************************************************)
(* Claims about the confidence values, checked under SpecNLP.              *)
(***************************************************************************)
\* a quotient between 0 and 1
InUnitInterval(q) == q.num >= 0 /\ q.num <= q.den

\* C16: every confidence the pipeline returns lies in [0,1]: that of
\* recognizeIntent (kept in thousandths), of analyzeSemanticContext, of
\* selectBestResponse at any threshold >= 0, and of findBestMatch and
\* findPatternMatch, for every message.
ConfidenceInUnitInterval ==
  /\ Returned("recognizeIntent") =>
       (result.confidence >= 0 /\ result.confidence <= 1000)
  /\ Returned("analyzeSemanticContext") => InUnitInterval(result.confidence)
  /\ (Returned("selectBestResponse") /\ result # None) =>
       InUnitInterval(result[1].confidence)
  /\ Returned("findBestMatch") => InUnitInterval(result.confidence)
  /\ Returned("findPatternMatch") => InUnitInterval(result.confidence)

UnderstandContextDeterministicAndPure ==
  /\ \A input \in ContextInputs :
       \A n \in 1..Len(returned[input]) :
         returned[input][n] =
           understandContext(NewNLPService, input.message, input.history)
  /\ service.intentTrainingData = intentTrainingData
  /\ service.tfidf.documents = documents

\* an input has been answered twice, the second time from cached idf values,
\* and calls with other messages have been made on the instance
AnsweredAgainFromCachedIdfs ==
  /\ \E input \in ContextInputs :
       /\ Len(returned[input]) >= 2
       /\ \A term \in {"need", "loan", "apply", "status"} :
            term \in {tokenize(toLowerCase(input.message))[k] :
                        k \in 1..Len(tokenize(toLowerCase(input.message)))}
              => \E e \in service.tfidf.idfCache : e[1] = term
  /\ \E e \in service.tfidf.idfCache : e[1] = "documents"

(***************************************************************************)
(* Claims about the loan application routes, checked under SpecLoan.       *)
(***************************************************************************)
ListedFields(a) ==
  <<a.loanType, a.amount, a.term, a.purpose,
    a.personalInfo, a.employmentInfo, a.financialInfo>>

\* the request of the route saves in this step a document loaded as a
SavesIn(pcName, a) ==
  \E r \in Reqs : /\ loanReqs[r].pc = pcName
                  /\ loanReqs[r].id = a._id
                  /\ loanReqs'[r].pc = "idle"

\* a request of the owner of a to the route is answered in this step
OwnerAnswered(op, pcName, a) ==
  /\ loanOp'.op = op
  /\ loanOp'.id = a._id
  /\ loanOp'.user = a.userId
  /\ loanOp'.code # 0
  /\ loanOp' # loanOp \/ SavesIn(pcName, a)

\* C19: the owner's update operation changes loanType, amount, term,
\* purpose, personalInfo, employmentInfo or financialInfo of an application
\* only when the stored status is 'draft'; an update of an application of
\* any other status is answered 400 and leaves the stored applications
\* unchanged.
UpdateChangesOnlyDrafts ==
  [][\A a \in apps :
       /\ (\E b \in apps' : b._id = a._id /\ ListedFields(b) # ListedFields(a))
            => a.status = "draft"
       /\ (OwnerAnswered("update", "updateAssigned", a) /\ a.status # "draft")
            => (loanOp'.code = 400 /\ apps' = apps)]_vars

\* C20: the submit operation sets status to 'submitted' only when the
\* stored status is 'draft' and personalInfo.firstName and
\* personalInfo.lastName are both present; in every other case it answers
\* 400, or 404 when the requesting user has no application of that id, and
\* leaves the status unchanged, so a submitted application is not submitted
\* again.
SubmitOnlyFromCompleteDraft ==
  [][/\ \A a \in apps :
          LET complete == /\ a.status = "draft"
                          /\ ~Missing(a.personalInfo, "firstName")
                          /\ ~Missing(a.personalInfo, "lastName")
          IN (OwnerAnswered("submit", "submitAssigned", a) /\ ~complete)
               => /\ loanOp'.code = 400
                  /\ \A b \in apps' : b._id = a._id => b.status = a.status
     /\ (/\ loanOp' # loanOp
         /\ loanOp'.op = "submit"
         /\ FindApplication(loanOp'.user, loanOp'.id) = {})
          => (loanOp'.code = 404 /\ apps' = apps)]_vars

\* a request body of POST /applications with the four required fields, each
\* with a valid value
ValidCreateBody(body) ==
  /\ ~MissingRequired(body)
  /\ body.loanType[1] \in LoanTypeEnum
  /\ body.amount[1] >= MinAmount /\ body.amount[1] <= MaxAmount
  /\ body.term[1] >= MinTerm /\ body.term[1] <= MaxTerm
  /\ Trim(body.purpose[1]) # ""

Digits(s) ==
  \A i \in 1..Len(s) : \E d \in 1..Len(DecimalDigits) :
    SubSeq(s, i, i) = SubSeq(DecimalDigits, d, d)

\* LOAN-<6 digits>-<3 digits>
WellFormedNumber(number) ==
  /\ Len(number) = 15
  /\ SubSeq(number, 1, 5) = "LOAN-"
  /\ Digits(SubSeq(number, 6, 11))
  /\ SubSeq(number, 12, 12) = "-"
  /\ Digits(SubSeq(number, 13, 15))

\* C21: a create request that supplies loanType, amount, term and purpose
\* with valid values stores one new application of the requesting user with
\* status 'draft' and an applicationNumber of the form
\* LOAN-<6 digits>-<3 digits>, and answers 201; a request missing any of the
\* four fields answers 400 and stores nothing.
CreateStoresDraftWithNumber ==
  [][\A u \in Users, body \in LoanCreateBodies, now \in Nows, random \in Randoms :
       LoanCreate(u, body, now, random) =>
         /\ ValidCreateBody(body) =>
              /\ loanOp'.code = 201
              /\ \E a \in apps' \ apps :
                   /\ apps' = apps \cup {a}
                   /\ a.userId = u
                   /\ a.status = "draft"
                   /\ a.applicationNumber # None
                   /\ WellFormedNumber(a.applicationNumber[1])
         /\ MissingRequired(body) => (loanOp'.code = 400 /\ apps' = apps)]_vars

(***************************************************************************)
(* ChatInterface: sending a message                                        *)
(***************************************************************************)
\* the POST of a send request is answered with an error
PostFails(req, ok) == ~ok \/ req.sid \notin DOMAIN server

\* after is list with its one occurrence of msg taken out
WithoutMessage(list, msg, after) ==
  IF \E i \in 1..Len(list) : list[i] = msg
  THEN \E i \in 1..Len(list) :
          /\ list[i] = msg
          /\ after = SubSeq(list, 1, i - 1) \o SubSeq(list, i + 1, Len(list))
  ELSE after = list

SendsOutstanding == {req \in pending : req.op = "send"}

\* a reply is displayed after the user message of a later send
ReplyAfterLaterMessage ==
  \E i, j \in 1..Len(ui.messages) :
     /\ j < i
     /\ ui.messages[i].sender = "assistant"
     /\ ui.messages[j].sender = "user"
     /\ ui.messages[j].key > ui.messages[i].key

\* C23: while a send request is awaited no second send is started, by the
\* button or by the Enter key: at most one send request is outstanding,
\* sending is true while one is outstanding, and no reply is displayed
\* after the user message of a later send.
OneSendAtATime ==
  /\ Cardinality(SendsOutstanding) <= 1
  /\ SendsOutstanding # {} => ui.sending
  /\ ~ReplyAfterLaterMessage

\* the replies in a list of messages all answer messages sent in session sid
RepliesOf(list, sid) ==
  \A i \in 1..Len(list) :
     (list[i].sender = "assistant" /\ list[i].key > 0) => list[i].session = sid

\* C24: an assistant reply is appended only to the displayed messages and
\* to currentSession.messages of the session its user message was sent in,
\* also when the user has switched to another session, created one or
\* deleted the current one while the request was awaited.
RepliesStayInTheirSession ==
  IF ui.currentSession = None
  THEN RepliesOf(ui.messages, "none")
  ELSE /\ RepliesOf(ui.messages, ui.currentSession[1].sessionId)
       /\ RepliesOf(ui.currentSession[1].messages, ui.currentSession[1].sessionId)

(***************************************************************************)
(* Chat sessions: a send-message request that fails                         *)
(***************************************************************************)
\* a message the schema rejects: content missing or blank once trimmed, or a
\* messageType outside the enum
RejectedBySchema(m) ==
  \/ m.content = None
  \/ Trim(m.content[1]) = ""
  \/ m.messageType \notin {"text", "loan-application", "document", "system"}

\* chat.save() of request r is rejected: a pushed message is invalid or the
\* document is no longer stored
SaveRejected(r) ==
  \/ \E i \in 1..Len(reqs[r].pushed) : RejectedBySchema(reqs[r].pushed[i])
  \/ \A d \in db : d._id # reqs[r].doc._id

\* C25: a send-message request that fails after the user message was pushed
\* onto the in-memory session (the response generation throws, or the save
\* is rejected) leaves the stored sessions as they were, messages and
\* lastActivity included, and is answered 500.
FailedSendStoresNothing ==
  [][/\ \A u \in Users, sid \in SessionIds :
          Find(u, sid) # {} =>
            \A b \in {c \in SendBodies : c.content = None}, r \in Reqs :
               SendFind(r, u, sid, b) =>
                  (lastOp' = Answer(u, 500) /\ db' = db /\ clock' = clock)
     /\ \A r \in Reqs :
          (SendSave(r) /\ SaveRejected(r)) =>
             (lastOp' = Answer(reqs[r].user, 500) /\ db' = db /\ clock' = clock)
     /\ \A r \in Reqs :
          SendSaveRejected(r) =>
             (lastOp' = Answer(reqs[r].user, 500) /\ db' = db /\ clock' = clock)
     /\ \A r \in Reqs :
          (SendSave(r) /\ lastOp'.code # 200) => (lastOp'.code = 500 /\ db' = db)
    ]_vars

\* a request of the owner of a stored session was answered 500 and the
\* session holds its greeting only, with the lastActivity of its creation
ErrorAnsweredSessionUntouched ==
  /\ lastOp.code = 500
  /\ clock = 0
  /\ \E d \in db : /\ d.userId = lastOp.user
                   /\ d.messages = <<Greeting>>
                   /\ d.lastActivity = 0
                   /\ d.status = "active"
                   /\ d.title = DefaultTitle
  /\ Cardinality(db) = 1

(***************************************************************************)
(* Owner-scoped routes                                                     *)
(***************************************************************************)
\* the record named by the request is stored and belongs to another user
ForeignSession(u, sid) == \E d \in db : d.sessionId = sid /\ d.userId # u

ForeignApplication(u, id) == \E a \in apps : a._id = id /\ a.userId # u

\* C26: a request of user u that names a chat session or a loan application
\* of another user is answered 404 and starts no handler, and no step of an
\* owner-scoped route (get, send-message, update, delete, submit, upload)
\* changes or removes a record of a user other than the requesting one.
OwnerScopedRoutes ==
  [][/\ apps = {} =>
          /\ \A d \in db : d.userId # lastOp'.user => d \in db'
          /\ \A u \in Users, sid \in SessionIds :
               (lastOp'.user = u /\ ForeignSession(u, sid)) =>
                  \/ lastOp' = Answer(u, 404) /\ db' = db /\ reqs' = reqs
                  \/ ~ \/ GetSession(u, sid)
                       \/ DeleteSession(u, sid)
                       \/ \E r \in Reqs, b \in SendBodies : SendFind(r, u, sid, b)
                       \/ \E r \in Reqs, b \in UpdateBodies : UpdateFind(r, u, sid, b)
     /\ apps # {} =>
          /\ loanOp'.op # "status" =>
               \A a \in apps : a.userId # loanOp'.user => a \in apps'
          /\ \A u \in Users, id \in AppIds :
               ForeignApplication(u, id) =>
                 /\ LoanGet(u, id) =>
                       (loanOp' = LoanAnswer("get", u, id, 404) /\ apps' = apps)
                 /\ \A r \in Reqs :
                       \/ \E b \in LoanUpdateBodies : LoanUpdateFind(r, u, id, b)
                       \/ LoanSubmitFind(r, u, id)
                       \/ \E b \in UploadBodies : UploadFind(r, u, id, b)
                       => /\ loanOp'.user = u /\ loanOp'.id = id
                          /\ loanOp'.code = 404
                          /\ apps' = apps /\ loanReqs' = loanReqs
    ]_vars

\* alice's upload to bob's application was answered 404 and the application
\* has no document
ForeignUploadNotFound ==
  /\ loanOp = LoanAnswer("upload", "alice", "a2", 404)
  /\ \E a \in apps : a._id = "a2" /\ a.userId = "bob" /\ a.documents = <<>>

(***************************************************************************)
(* Loan applications: the status                                           *)
(***************************************************************************)
\* the request answered by this step assigned status s
AdminAssigned(r, s) ==
  /\ AdminStatusSave(r)
  /\ "status" \in DOMAIN loanReqs[r].set
  /\ loanReqs[r].set.status = s

\* C27: the non-admin routes (create, update, submit, upload) change the
\* status of a stored application from draft to submitted only; every other
\* change of status is made by the admin status route; approvalDetails and
\* rejectionDetails are written by that route only, and not by a request
\* that assigns another status than approved, respectively rejected.
StatusChangesOnlyAsStated ==
  [][\A a \in apps, b \in apps' :
        a._id = b._id =>
          /\ a.status # b.status =>
               \/ loanOp'.op = "status"
               \/ a.status = "draft" /\ b.status = "submitted"
          /\ a.approvalDetails # b.approvalDetails =>
               /\ loanOp'.op = "status"
               /\ \A r \in Reqs, s \in LoanStatusEnum \ {"approved"} :
                     ~AdminAssigned(r, s)
          /\ a.rejectionDetails # b.rejectionDetails =>
               /\ loanOp'.op = "status"
               /\ \A r \in Reqs, s \in LoanStatusEnum \ {"rejected"} :
                     ~AdminAssigned(r, s)
    ]_vars

====
